---- MODULE Spec2Model ----
(***************************************************************************)
(* Model of the recommendation and demand services of ecommerce-ml:        *)
(*   backend/app/services/recommendation_service.py                        *)
(*   backend/app/services/demand_service.py                                *)
(*   backend/app/routers/recommendations.py, backend/app/routers/demand.py *)
(*                                                                         *)
(* Numbers.  Similarities, weights and demand values are Python floats.    *)
(* They are modelled as fixed-point integers: similarities and weights in  *)
(* thousandths (1000 = 1.0), a hybrid score before rounding in millionths, *)
(* demand and forecast values in thousandths.  round(x, k) is round half   *)
(* to even on the scaled integer.                                          *)
(*                                                                         *)
(* External libraries.  The nearest-neighbour index (kneighbors) returns   *)
(* the k nearest rows by ascending distance and numpy's argsort returns    *)
(* the indices by ascending value; neither fixes the order of equal keys,  *)
(* so an order among ties is chosen nondeterministically.  The regression  *)
(* model's predict is an arbitrary function of the features: its value is  *)
(* drawn from PredValues, or it raises.                                    *)
(***************************************************************************)
EXTENDS Integers, Sequences, FiniteSets, TLC

VARIABLES
    artifacts,         \* names of the attributes that are not None after loading
    item_user_matrix,  \* RecommendationService.item_user_matrix: row index -> row
    tfidf_matrix,      \* RecommendationService.tfidf_matrix: row index -> row
    mappings,          \* RecommendationService.mappings: the four ID<->index maps
    product_metadata,  \* RecommendationService.product_metadata: asin -> record
    req,               \* the request being served (operation and arguments)
    cf_recs,           \* get_hybrid_recommendations: cf_recs
    cb_recs,           \* get_hybrid_recommendations: cb_recs
    scores,            \* get_hybrid_recommendations: scores, in insertion order
    result,            \* the list returned by the service method
    body,              \* what a read operation other than those returned: a
                       \* sequence of records, one record for a single dict
    outcome,           \* "idle", "running", "returned", "none", "raised", "not_called"
    response,          \* HTTP status of the endpoint (0 before any request)
    weekly_demand,     \* DemandService.weekly_demand: asin -> demands by week
    demand_report,     \* the dict returned by get_product_demand
    historical,        \* generate_forecast: historical
    forecasts,         \* generate_forecast: forecasts
    loop_i,            \* generate_forecast: the loop index i
    historical_std,    \* generate_forecast: historical_std
    trend,             \* generate_forecast: trend
    branch,            \* generate_forecast: the branch the last loop step took
    files,             \* the artifact files on disk: name -> "ok", "missing", "corrupt"
    cls_instance,      \* class -> cls._instance (0 is None, else an object)
    obj_initialized,   \* object -> "free" (not created), "unset" (created, no
                       \* _initialized attribute yet), "false", "true"
    obj_load,          \* object -> "none", "loading", "done": progress of its load
    load_runs,         \* class -> number of times its load has been started
    pc,                \* thread -> where it stands in a construction Cls()
    constructing,      \* thread -> the class it is constructing
    self,              \* thread -> the object __new__ returned to it (0: none yet)
    calls,             \* thread -> number of constructions it has begun
    obtained,          \* thread -> what its constructions returned, oldest first
    meta_stream,       \* the records of the metadata file, by their product IDs
    scan_offset,       \* _load_metadata_index: offset
    found,             \* _load_metadata_index: found
    scan_pc,           \* where the loader in progress stands
    reviews            \* the events of the reviews file: product ID and day

\* the construction state of the two singleton classes and of their callers
ctor == <<cls_instance, obj_initialized, obj_load, load_runs, pc, constructing,
          self, calls, obtained>>

\* what the loaders read, and the locals of the catalog scan
loading == <<meta_stream, scan_offset, found, scan_pc, reviews>>

\* the loaded state of the two services
svc == <<artifacts, item_user_matrix, tfidf_matrix, mappings, product_metadata,
         weekly_demand, files, ctor, loading>>

\* the locals of a recommendation request, and the body of a read operation
recLocals == <<cf_recs, cb_recs, scores, result, body>>

\* the locals of a demand request
demandLocals == <<demand_report, historical, forecasts, loop_i, historical_std, trend,
                  branch>>

vars == <<artifacts, item_user_matrix, tfidf_matrix, mappings, product_metadata,
          req, cf_recs, cb_recs, scores, result, body, outcome, response,
          weekly_demand, demand_report, historical, forecasts, loop_i,
          historical_std, trend, branch, files, cls_instance, obj_initialized,
          obj_load, load_runs, pc, constructing, self, calls, obtained,
          meta_stream, scan_offset, found, scan_pc, reviews>>

----------------------------------------------------------------------------
(* Bounds *)

\* largest n_recommendations a request asks for
MaxN == 2
\* largest number of products without a resolvable image in the catalog
MaxNoImage == 1
\* largest forecast horizon (weeks) a request asks for
MaxWeeks == 3
\* longest weekly demand series of a product
MaxLen == 21
\* largest number of constructions Cls() one thread begins
MaxCtor == 1

----------------------------------------------------------------------------
(* Generic helpers *)

None == "None"

Min(a, b) == IF a < b THEN a ELSE b
Max(a, b) == IF a > b THEN a ELSE b
Abs(a) == IF a < 0 THEN -a ELSE a

Range(s) == {s[i] : i \in 1..Len(s)}

\* s[:k] of Python
Take(s, k) == SubSeq(s, 1, Min(k, Len(s)))

\* s[k:] of Python
Drop(s, k) == SubSeq(s, k + 1, Len(s))

\* Python round(x / unit): round half to even, x an integer count of 1/unit
RoundHalfEven(x, unit) ==
    LET q == x \div unit
        r == x % unit
    IN  IF 2 * r < unit THEN q
        ELSE IF 2 * r > unit THEN q + 1
        ELSE IF q % 2 = 0 THEN q ELSE q + 1

RECURSIVE SqrtIter(_, _, _)
SqrtIter(x, lo, hi) ==
    IF lo >= hi THEN lo
    ELSE LET mid == (lo + hi + 1) \div 2
         IN  IF mid * mid <= x THEN SqrtIter(x, mid, hi)
             ELSE SqrtIter(x, lo, mid - 1)

\* floor of the square root of a natural number
ISqrt(x) == SqrtIter(x, 0, Min(x, 46340))

\* the square root of a natural number, rounded to the nearest integer
RoundSqrt(x) == LET r == ISqrt(x) IN IF x - r * r > r THEN r + 1 ELSE r

----------------------------------------------------------------------------
(* The catalog of the model: products, matrix rows, mappings *)

Products == {"A", "B", "C", "D", "E", "F"}
UnknownAsin == "Z"

\* rows of the interaction / text-vector matrices (two columns)
Rows == {<<1, 0>>, <<1, 1>>, <<0, 1>>}

Dot(x, y) == x[1] * y[1] + x[2] * y[2]

\* sklearn cosine_similarity of two rows, rounded to thousandths
cosine_similarity(x, y) ==
    IF Dot(x, x) = 0 \/ Dot(y, y) = 0 THEN 0
    ELSE RoundSqrt((1000000 * Dot(x, y) * Dot(x, y)) \div (Dot(x, x) * Dot(y, y)))

SimTable == [p \in Rows \X Rows |-> cosine_similarity(p[1], p[2])]

\* recommendation_mappings.json: two independent bijections
LoadedMappings ==
    [ product_to_idx    |-> ("A" :> 0) @@ ("B" :> 1) @@ ("C" :> 2) @@ ("D" :> 3) @@ ("E" :> 4),
      idx_to_product    |-> (0 :> "A") @@ (1 :> "B") @@ (2 :> "C") @@ (3 :> "D") @@ (4 :> "E"),
      cb_product_to_idx |-> ("B" :> 0) @@ ("F" :> 1) @@ ("A" :> 2) @@ ("C" :> 3),
      cb_idx_to_product |-> (0 :> "B") @@ (1 :> "F") @@ (2 :> "A") @@ (3 :> "C") ]

\* dict.get(key, "") on an index -> asin map
GetAsin(m, idx) == IF idx \in DOMAIN m THEN m[idx] ELSE ""

----------------------------------------------------------------------------
(* RecommendationService: catalog lookup and the display filter *)

\* truthiness of an optional string: neither None nor empty
Truthy(x) == x # None /\ x # ""

\* _parse_price of a price that is None or already a number; price strings
\* are not among the records of the model
_parse_price(price_value) == price_value

\* dict.get(key) of a catalog record: None when the record has no such key
Get(data, key) == IF key \in DOMAIN data THEN data[key] ELSE None

\* " ".join(parts): a text is the sequence of its words
RECURSIVE Join(_)
Join(parts) == IF parts = <<>> THEN <<>> ELSE Head(parts) \o Join(Tail(parts))

\* the description get_product_details builds: the first two paragraphs of
\* the record's description, else its first feature (the texts of the model
\* are shorter than the 200 characters at which the code cuts)
DescriptionOf(data) ==
    LET description == Join(Take(data.description, 2))
    IN  IF description # <<>> THEN description
        ELSE IF Len(data.features) > 0 THEN data.features[1] ELSE <<>>

\* mutant: the placeholder's title is the bare product ID
Placeholder_BareTitle(asin) ==
    [asin |-> asin, title |-> <<asin>>, description |-> <<>>, image_url |-> None,
     price |-> None, rating |-> None, rating_count |-> None, store |-> None,
     categories |-> <<>>]

\* the record get_product_details returns for a product without metadata;
\* the title f"Product {asin}" is the pair of its two parts
Placeholder(asin) ==
    [asin |-> asin, title |-> <<"Product", asin>>, description |-> <<>>,
     image_url |-> None, price |-> None, rating |-> None, rating_count |-> None,
     store |-> None, categories |-> <<>>]

\* RecommendationService.get_product_details: the placeholder for a product
\* absent from the catalog, else the attributes resolved from its record
\* (the records of the model carry no price, so that _parse_price gets None)
get_product_details(asin) ==
    IF asin \notin DOMAIN product_metadata THEN Placeholder(asin)
    ELSE LET data == product_metadata[asin]
         IN  [asin |-> asin,
              title |-> data.title,
              description |-> DescriptionOf(data),
              image_url |-> IF Len(data.images) > 0 THEN data.images[1] ELSE None,
              price |-> _parse_price(Get(data, "price")),
              rating |-> Get(data, "average_rating"),
              rating_count |-> Get(data, "rating_number"),
              store |-> Get(data, "store"),
              categories |-> Take(data.categories, 3)]

RECURSIVE _enrich_recommendations_KeepAll(_)
\* mutant: the candidates without an image are kept
_enrich_recommendations_KeepAll(recommendations) ==
    IF recommendations = <<>> THEN <<>>
    ELSE LET rec == Head(recommendations)
             details == get_product_details(rec.asin)
         IN  <<[asin |-> rec.asin, similarity |-> rec.similarity,
                method |-> rec.method, title |-> details.title,
                image_url |-> details.image_url]>>
             \o _enrich_recommendations_KeepAll(Tail(recommendations))

RECURSIVE _enrich_recommendations(_)
\* RecommendationService._enrich_recommendations: attach the details and
\* keep only the candidates that have an image
_enrich_recommendations(recommendations) ==
    IF recommendations = <<>> THEN <<>>
    ELSE LET rec == Head(recommendations)
             details == get_product_details(rec.asin)
             rest == _enrich_recommendations(Tail(recommendations))
         IN  IF ~Truthy(details.image_url) THEN rest
             ELSE <<[asin |-> rec.asin, similarity |-> rec.similarity,
                     method |-> rec.method, title |-> details.title,
                     image_url |-> details.image_url]>> \o rest

\* RecommendationService.is_ready
is_ready == {"knn_model", "item_user_matrix", "mappings"} \subseteq artifacts

----------------------------------------------------------------------------
(* Orders the external sort routines may return *)

RECURSIVE TieOrders(_, _)
\* every listing of the set S by ascending key, ties in any order
TieOrders(S, key) ==
    IF S = {} THEN {<<>>}
    ELSE LET m == CHOOSE x \in S : \A y \in S : key[x] <= key[y]
             firsts == {x \in S : key[x] = key[m]}
         IN  UNION {{<<x>> \o t : t \in TieOrders(S \ {x}, key)} : x \in firsts}

\* cosine distance of row i of the interaction matrix from row q, thousandths
Distance(q, i) == 1000 - SimTable[<<item_user_matrix[q], item_user_matrix[i]>>]

\* knn_model.kneighbors(item_user_matrix[q], n_neighbors = k): the indices of
\* the k nearest rows, nearest first
kneighbors(q, k) ==
    LET idxs == DOMAIN item_user_matrix
        key == [i \in idxs |-> Distance(q, i)]
    IN  {Take(s, k) : s \in TieOrders(idxs, key)}

\* similarities[i] of get_content_recommendations
Similarity(q, i) == SimTable[<<tfidf_matrix[q], tfidf_matrix[i]>>]

\* similarities.argsort()[::-1]: the row indices by descending similarity
argsort_desc(q) ==
    LET idxs == DOMAIN tfidf_matrix
        key == [i \in idxs |-> 0 - Similarity(q, i)]
    IN  TieOrders(idxs, key)

----------------------------------------------------------------------------
(* RecommendationService: the three recommenders *)

\* what a service method does: return a list, or raise
Ret(l) == [raised |-> FALSE, list |-> l]
Raised == [raised |-> TRUE, list |-> <<>>]

\* the loop over indices[0][1:] of get_collaborative_recommendations
CollabCandidates(q, nbrs) ==
    [j \in 1..(Len(nbrs) - 1) |->
        [asin |-> GetAsin(mappings.idx_to_product, nbrs[j + 1]),
         similarity |-> 1000 - Distance(q, nbrs[j + 1]),
         method |-> "collaborative"]]

\* get_collaborative_recommendations for a product of the mapping: the
\* neighbour query and what follows it
CollabQuery(product_asin, n_recommendations) ==
    LET product_idx == mappings.product_to_idx[product_asin]
    IN  IF n_recommendations + 1 > Cardinality(DOMAIN item_user_matrix)
        THEN {Raised}   \* ValueError: n_neighbors > n_samples_fit
        ELSE {Ret(_enrich_recommendations(CollabCandidates(product_idx, nbrs))) :
                 nbrs \in kneighbors(product_idx, n_recommendations + 1)}

\* mutant: the membership check on product_to_idx is missing, so the lookup
\* of an unknown product raises KeyError
get_collaborative_recommendations_NoMembershipCheck(product_asin, n_recommendations) ==
    IF ~is_ready THEN {Ret(<<>>)}
    ELSE IF product_asin \notin DOMAIN mappings.product_to_idx THEN {Raised}
    ELSE CollabQuery(product_asin, n_recommendations)

\* RecommendationService.get_collaborative_recommendations: the outcomes
\* the call can have
get_collaborative_recommendations(product_asin, n_recommendations) ==
    IF ~is_ready THEN {Ret(<<>>)}
    ELSE IF product_asin \notin DOMAIN mappings.product_to_idx THEN {Ret(<<>>)}
    ELSE CollabQuery(product_asin, n_recommendations)

\* the loop over similar_indices of get_content_recommendations
ContentCandidates(q, similar_indices) ==
    [j \in 1..Len(similar_indices) |->
        [asin |-> GetAsin(mappings.cb_idx_to_product, similar_indices[j]),
         similarity |-> Similarity(q, similar_indices[j]),
         method |-> "content"]]

\* RecommendationService.get_content_recommendations: the outcomes the call
\* can have
get_content_recommendations(product_asin, n_recommendations) ==
    IF "tfidf_matrix" \notin artifacts \/ "mappings" \notin artifacts THEN {Ret(<<>>)}
    ELSE IF product_asin \notin DOMAIN mappings.cb_product_to_idx THEN {Ret(<<>>)}
    ELSE LET idx == mappings.cb_product_to_idx[product_asin]
         IN  {Ret(_enrich_recommendations(
                    ContentCandidates(idx, SubSeq(order, 2, Min(n_recommendations + 1, Len(order)))))) :
                 order \in argsort_desc(idx)}

\* mutant: a new key is put in front of the keys already there
SetScore_NewKeyFirst(sc, asin, value, rec) ==
    IF \E j \in 1..Len(sc) : sc[j].asin = asin
    THEN [j \in 1..Len(sc) |-> IF sc[j].asin = asin
                                THEN [asin |-> asin, score |-> value, data |-> rec]
                                ELSE sc[j]]
    ELSE <<[asin |-> asin, score |-> value, data |-> rec]>> \o sc

\* scores[asin] = value, keeping the key's insertion position (a Python dict)
SetScore(sc, asin, value, rec) ==
    IF \E j \in 1..Len(sc) : sc[j].asin = asin
    THEN [j \in 1..Len(sc) |-> IF sc[j].asin = asin
                                THEN [asin |-> asin, score |-> value, data |-> rec]
                                ELSE sc[j]]
    ELSE Append(sc, [asin |-> asin, score |-> value, data |-> rec])

RECURSIVE AddCollaborative(_, _, _)
\* first loop of get_hybrid_recommendations: scores[asin] = similarity * cf_weight
AddCollaborative(sc, recs, cf_weight) ==
    IF recs = <<>> THEN sc
    ELSE LET rec == Head(recs)
         IN  AddCollaborative(SetScore(sc, rec.asin, rec.similarity * cf_weight, rec),
                              Tail(recs), cf_weight)

RECURSIVE AddContent_Overwrite(_, _, _)
\* mutant: a product of both lists gets its content score assigned, not added
AddContent_Overwrite(sc, recs, cb_weight) ==
    IF recs = <<>> THEN sc
    ELSE LET rec == Head(recs)
         IN  AddContent_Overwrite(
                 SetScore(sc, rec.asin, rec.similarity * cb_weight,
                          IF \E j \in 1..Len(sc) : sc[j].asin = rec.asin
                          THEN (CHOOSE e \in Range(sc) : e.asin = rec.asin).data
                          ELSE rec),
                 Tail(recs), cb_weight)

RECURSIVE AddContent(_, _, _)
\* second loop of get_hybrid_recommendations: add similarity * cb_weight to
\* a score already present, else insert it together with the record
AddContent(sc, recs, cb_weight) ==
    IF recs = <<>> THEN sc
    ELSE LET rec == Head(recs)
             at == {j \in 1..Len(sc) : sc[j].asin = rec.asin}
         IN  IF at # {}
             THEN AddContent([j \in 1..Len(sc) |->
                                 IF j \in at
                                 THEN [sc[j] EXCEPT !.score = @ + rec.similarity * cb_weight]
                                 ELSE sc[j]],
                             Tail(recs), cb_weight)
             ELSE AddContent(Append(sc, [asin |-> rec.asin,
                                         score |-> rec.similarity * cb_weight,
                                         data |-> rec]),
                             Tail(recs), cb_weight)

RECURSIVE InsertDescending_Ascending(_, _)
\* mutant: the sort is ascending (reverse = True forgotten)
InsertDescending_Ascending(sorted, e) ==
    IF sorted = <<>> THEN <<e>>
    ELSE IF Head(sorted).score <= e.score
         THEN <<Head(sorted)>> \o InsertDescending_Ascending(Tail(sorted), e)
         ELSE <<e>> \o sorted

RECURSIVE InsertDescending(_, _)
\* insert e behind every entry whose score is at least e's
InsertDescending(sorted, e) ==
    IF sorted = <<>> THEN <<e>>
    ELSE IF Head(sorted).score >= e.score
         THEN <<Head(sorted)>> \o InsertDescending(Tail(sorted), e)
         ELSE <<e>> \o sorted

RECURSIVE SortedDescending_TiesReversed(_, _)
\* mutant: the sort is not stable, entries of equal score come out reversed
SortedDescending_TiesReversed(done, todo) ==
    IF todo = <<>> THEN done
    ELSE SortedDescending_TiesReversed(InsertDescending(done, todo[Len(todo)]),
                                       SubSeq(todo, 1, Len(todo) - 1))

RECURSIVE SortedDescending(_, _)
\* sorted(scores.items(), key = score, reverse = True): stable
SortedDescending(done, todo) ==
    IF todo = <<>> THEN done
    ELSE SortedDescending(InsertDescending(done, Head(todo)), Tail(todo))

RECURSIVE HybridResults_SourceRecords(_)
\* mutant: the record of the underlying list is emitted as it came
HybridResults_SourceRecords(entries) ==
    IF entries = <<>> THEN <<>>
    ELSE LET e == Head(entries)
             rest == HybridResults_SourceRecords(Tail(entries))
         IN  IF ~Truthy(e.data.image_url) THEN rest
             ELSE <<e.data>> \o rest

RECURSIVE HybridResults(_)
\* last loop of get_hybrid_recommendations: emit the entries that have an image
HybridResults(entries) ==
    IF entries = <<>> THEN <<>>
    ELSE LET e == Head(entries)
             rest == HybridResults(Tail(entries))
         IN  IF ~Truthy(e.data.image_url) THEN rest
             ELSE <<[asin |-> e.asin, score |-> RoundHalfEven(e.score, 1000),
                     method |-> "hybrid", title |-> e.data.title,
                     image_url |-> e.data.image_url]>> \o rest

\* mutant: a list that stands in for the merge is returned whole
HybridOf_FallbackWhole(cf, cb, n_recommendations, cf_weight) ==
    IF cf = <<>> /\ cb = <<>> THEN [list |-> <<>>, scores |-> <<>>]
    ELSE IF cf = <<>> THEN [list |-> cb, scores |-> <<>>]
    ELSE IF cb = <<>> THEN [list |-> cf, scores |-> <<>>]
    ELSE LET cb_weight == 1000 - cf_weight
             sc == AddContent(AddCollaborative(<<>>, cf, cf_weight), cb, cb_weight)
             sorted_recs == SortedDescending(<<>>, sc)
         IN  [list |-> HybridResults(Take(sorted_recs, n_recommendations)),
              scores |-> sc]

\* get_hybrid_recommendations once both underlying lists are known
HybridOf(cf, cb, n_recommendations, cf_weight) ==
    IF cf = <<>> /\ cb = <<>> THEN [list |-> <<>>, scores |-> <<>>]
    ELSE IF cf = <<>> THEN [list |-> Take(cb, n_recommendations), scores |-> <<>>]
    ELSE IF cb = <<>> THEN [list |-> Take(cf, n_recommendations), scores |-> <<>>]
    ELSE LET cb_weight == 1000 - cf_weight
             sc == AddContent(AddCollaborative(<<>>, cf, cf_weight), cb, cb_weight)
             sorted_recs == SortedDescending(<<>>, sc)
         IN  [list |-> HybridResults(Take(sorted_recs, n_recommendations)),
              scores |-> sc]

\* RecommendationService.get_hybrid_recommendations: the outcomes the call
\* can have, with the two underlying lists and the score map it built
get_hybrid_recommendations(product_asin, n_recommendations, cf_weight) ==
    UNION {
        IF cfo.raised
        THEN {[raised |-> TRUE, list |-> <<>>, cf |-> <<>>, cb |-> <<>>, scores |-> <<>>]}
        ELSE {LET h == HybridOf(cfo.list, cbo.list, n_recommendations, cf_weight)
              IN  [raised |-> FALSE, list |-> h.list, cf |-> cfo.list,
                   cb |-> cbo.list, scores |-> h.scores] :
                 cbo \in get_content_recommendations(product_asin, n_recommendations * 2)} :
        cfo \in get_collaborative_recommendations(product_asin, n_recommendations * 2)}

----------------------------------------------------------------------------
(* routers/recommendations.py: the endpoints *)

\* product IDs a request may name: in both mappings, in the collaborative
\* mapping only, in the content mapping only, in neither
QueryAsins == {"A", "E", "F", UnknownAsin}

\* the largest n the endpoints accept (Query(6, ge=1, le=20))
MaxQueryN == 20

\* n values a request may carry: the small ones
SmallCounts == 1..MaxN

\* n values a request may carry: the small ones, and the largest
QueryCounts == SmallCounts \cup {MaxQueryN}

\* cf_weight values a request may carry (thousandths; the default is 0.6)
CfWeights == {0, 600, 1000}

\* status of an endpoint whose service call had outcome o
StatusOf(o) == IF o.raised THEN 500 ELSE IF o.list = <<>> THEN 404 ELSE 200

\* the 503 every recommendation endpoint answers when is_ready is false
NotReady(r) ==
    /\ req' = r
    /\ response' = 503
    /\ outcome' = "not_called"
    /\ result' = <<>>
    /\ cf_recs' = <<>>
    /\ cb_recs' = <<>>
    /\ scores' = <<>>

\* routers.recommendations.get_collaborative_recommendations, for a request
\* whose n is one of counts
CollaborativeEndpoint(counts) ==
    \E asin \in QueryAsins, n \in counts :
        LET r == [op |-> "collaborative", asin |-> asin, n |-> n, cf_weight |-> 0]
        IN  /\ outcome = "idle"
            /\ IF ~is_ready THEN NotReady(r)
               ELSE \E o \in get_collaborative_recommendations(asin, n) :
                        /\ req' = r
                        /\ response' = StatusOf(o)
                        /\ outcome' = IF o.raised THEN "raised" ELSE "returned"
                        /\ result' = o.list
                        /\ cf_recs' = <<>>
                        /\ cb_recs' = <<>>
                        /\ scores' = <<>>
            /\ UNCHANGED <<svc, demandLocals, body>>

\* routers.recommendations.get_content_recommendations
ContentEndpoint(counts) ==
    \E asin \in QueryAsins, n \in counts :
        LET r == [op |-> "content", asin |-> asin, n |-> n, cf_weight |-> 0]
        IN  /\ outcome = "idle"
            /\ IF ~is_ready THEN NotReady(r)
               ELSE \E o \in get_content_recommendations(asin, n) :
                        /\ req' = r
                        /\ response' = StatusOf(o)
                        /\ outcome' = IF o.raised THEN "raised" ELSE "returned"
                        /\ result' = o.list
                        /\ cf_recs' = <<>>
                        /\ cb_recs' = <<>>
                        /\ scores' = <<>>
            /\ UNCHANGED <<svc, demandLocals, body>>

\* routers.recommendations.get_hybrid_recommendations
HybridEndpoint(counts) ==
    \E asin \in QueryAsins, n \in counts, w \in CfWeights :
        LET r == [op |-> "hybrid", asin |-> asin, n |-> n, cf_weight |-> w]
        IN  /\ outcome = "idle"
            /\ IF ~is_ready THEN NotReady(r)
               ELSE \E o \in get_hybrid_recommendations(asin, n, w) :
                        /\ req' = r
                        /\ response' = StatusOf(o)
                        /\ outcome' = IF o.raised THEN "raised" ELSE "returned"
                        /\ result' = o.list
                        /\ cf_recs' = o.cf
                        /\ cb_recs' = o.cb
                        /\ scores' = o.scores
            /\ UNCHANGED <<svc, demandLocals, body>>

\* RecommendationService._has_image, for records whose images are URL strings
_has_image(data) == Len(data.images) > 0 /\ Truthy(data.images[1])

\* list(mappings["product_to_idx"].keys()): the keys in the order of their
\* indices
MappedProducts ==
    [i \in 1..Cardinality(DOMAIN mappings.idx_to_product) |->
        mappings.idx_to_product[i - 1]]

\* the order in which the catalog scan met the records it indexed
CatalogOrder ==
    SelectSeq(<<"A", "B", "C", "D", "E", "F">>, LAMBDA a : a \in DOMAIN product_metadata)

\* details of the products of a list, one after the other
DetailsOf(asins) == [k \in 1..Len(asins) |-> get_product_details(asins[k])]

\* RecommendationService.get_available_products
get_available_products(limit, offset) ==
    IF "mappings" \notin artifacts
    THEN [products |-> <<>>, total |-> 0, offset |-> 0, limit |-> limit]
    ELSE LET products_with_images ==
                 SelectSeq(MappedProducts,
                           LAMBDA a : /\ a \in DOMAIN product_metadata
                                      /\ _has_image(product_metadata[a]))
             paginated_asins == Take(Drop(products_with_images,
                                          Min(offset, Len(products_with_images))),
                                     limit)
         IN  [products |-> SelectSeq(DetailsOf(paginated_asins),
                                     LAMBDA d : Truthy(d.image_url)),
              total |-> Len(products_with_images),
              offset |-> offset,
              limit |-> limit]

\* str.lower of the words of the model
Lower(w) ==
    CASE w = "Title" -> "title"
      [] w = "A" -> "a"
      [] w = "B" -> "b"
      [] w = "C" -> "c"
      [] w = "D" -> "d"
      [] w = "E" -> "e"
      [] w = "F" -> "f"
      [] OTHER -> w

\* query_lower in title.lower(), for a query of one word
TitleMatches(query_lower, title) ==
    \E k \in 1..Len(title) : Lower(title[k]) = query_lower

\* RecommendationService.search_products: the first limit matches, in the
\* order of the catalog
search_products(query, limit) ==
    IF DOMAIN product_metadata = {} THEN <<>>
    ELSE LET query_lower == Lower(query)
             matches == SelectSeq(CatalogOrder,
                                  LAMBDA a : TitleMatches(query_lower,
                                                          product_metadata[a].title))
         IN  Take(DetailsOf(matches), limit)

\* RecommendationService.get_stats, with the defaults of RecommendationStats
get_stats ==
    IF "mappings" \notin artifacts
    THEN [status |-> "not_loaded", total_products |-> 0, products_with_content |-> 0,
          products_with_metadata |-> 0, models_loaded |-> {}]
    ELSE [status |-> IF is_ready THEN "ready" ELSE "partial",
          total_products |-> Cardinality(DOMAIN mappings.product_to_idx),
          products_with_content |-> Cardinality(DOMAIN mappings.cb_product_to_idx),
          products_with_metadata |-> Cardinality(DOMAIN product_metadata),
          models_loaded |-> artifacts \cap {"knn_model", "tfidf_vectorizer",
                                           "item_user_matrix", "tfidf_matrix"}]

\* page sizes and offsets a listing request may carry
ListLimits == {1, 2}
ListOffsets == {0, 4}

\* search words a request may carry: of every title, of one title, of none
SearchQueries == {"Title", "f", "zz"}

\* the recommendation locals a read operation leaves empty
NoRecommendation ==
    /\ result' = <<>>
    /\ cf_recs' = <<>>
    /\ cb_recs' = <<>>
    /\ scores' = <<>>

\* mutant: a product looked up and not found is entered into the catalog
ProductDetailsEndpoint_CachesPlaceholder ==
    \E product_asin \in QueryAsins :
        LET details == get_product_details(product_asin)
        IN  /\ outcome = "idle"
            /\ req' = [op |-> "product_details", asin |-> product_asin, n |-> 0,
                       cf_weight |-> 0]
            /\ IF DOMAIN details = {}
               THEN outcome' = "none" /\ response' = 404 /\ body' = <<>>
               ELSE outcome' = "returned" /\ response' = 200 /\ body' = <<details>>
            /\ NoRecommendation
            /\ product_metadata' =
                   IF product_asin \in DOMAIN product_metadata THEN product_metadata
                   ELSE [a \in DOMAIN product_metadata \cup {product_asin} |->
                            IF a = product_asin
                            THEN [title |-> details.title, images |-> <<>>,
                                  description |-> <<>>, features |-> <<>>,
                                  categories |-> <<>>]
                            ELSE product_metadata[a]]
            /\ UNCHANGED <<artifacts, item_user_matrix, tfidf_matrix, mappings,
                           weekly_demand, files, ctor, loading, demandLocals>>

\* routers.recommendations.get_product_details: the 404 is for a service
\* call that returns nothing
ProductDetailsEndpoint ==
    \E product_asin \in QueryAsins :
        LET details == get_product_details(product_asin)
        IN  /\ outcome = "idle"
            /\ req' = [op |-> "product_details", asin |-> product_asin, n |-> 0,
                       cf_weight |-> 0]
            /\ IF DOMAIN details = {}
               THEN outcome' = "none" /\ response' = 404 /\ body' = <<>>
               ELSE outcome' = "returned" /\ response' = 200 /\ body' = <<details>>
            /\ NoRecommendation
            /\ UNCHANGED <<artifacts, item_user_matrix, tfidf_matrix, mappings,
                           product_metadata, weekly_demand, files, ctor, loading, demandLocals>>

\* a read operation of the recommendation service has answered
Answered(r, b) ==
    /\ outcome = "idle"
    /\ req' = r
    /\ outcome' = "returned"
    /\ response' = 200
    /\ body' = b
    /\ NoRecommendation
    /\ UNCHANGED <<svc, demandLocals>>

\* routers.recommendations.get_available_products
ListProductsEndpoint ==
    \E limit \in ListLimits, offset \in ListOffsets :
        Answered([op |-> "products", asin |-> "", n |-> limit, cf_weight |-> 0],
                 <<get_available_products(limit, offset)>>)

\* routers.recommendations.search_products
SearchEndpoint ==
    \E q \in SearchQueries, limit \in ListLimits :
        Answered([op |-> "search", asin |-> q, n |-> limit, cf_weight |-> 0],
                 search_products(q, limit))

\* routers.recommendations.get_recommendation_stats
StatsEndpoint ==
    Answered([op |-> "stats", asin |-> "", n |-> 0, cf_weight |-> 0], <<get_stats>>)

----------------------------------------------------------------------------
(* The recommendation service after startup, serving requests *)

RecArtifacts == {"knn_model", "tfidf_vectorizer", "item_user_matrix",
                 "tfidf_matrix", "mappings"}

DemandArtifacts == {"weekly_demand", "forecast_model", "model_info"}

\* the catalog records: a product is indexed with an image, indexed without
\* one, or absent from the catalog
CatalogStates ==
    {st \in UNION {[Products -> {"img", kind}] : kind \in {"noimg", "absent"}} :
        Cardinality({p \in Products : st[p] # "img"}) <= MaxNoImage}

CatalogOf(st) ==
    [p \in {x \in Products : st[x] # "absent"} |->
        [title |-> <<"Title", p>>,
         images |-> IF st[p] = "img" THEN <<p>> ELSE <<>>,
         description |-> IF p = "B" THEN <<>> ELSE <<(<<"soft">>), <<"warm">>, <<"blue">>>>,
         features |-> <<(<<"sturdy">>)>>,
         average_rating |-> "4.5",
         rating_number |-> "12",
         store |-> "Acme",
         categories |-> <<"Home", "Kitchen", "Bedding", "Throws">>]]

\* the matrices of n rows the model loads: rows listed from the nearest to
\* the farthest from <<1, 0>>, no three of them identical
Matrices(n) ==
    {m \in [0..(n - 1) -> Rows] :
        /\ \A i, j \in 0..(n - 1) :
              i < j => SimTable[<<(<<1, 0>>), m[i]>>] >= SimTable[<<(<<1, 0>>), m[j]>>]
        /\ \A i, j, k \in 0..(n - 1) : (m[i] = m[j] /\ m[j] = m[k]) => Cardinality({i, j, k}) < 3}

----------------------------------------------------------------------------
(* Startup: what the loaders make of the files on disk *)

\* the files the loaders look for, named by the attribute each one fills
Files == RecArtifacts \cup DemandArtifacts \cup {"metadata"}

\* the files as found at startup: all readable, or one of them missing or
\* unreadable
FileStates ==
    {[f \in Files |-> "ok"]}
    \cup {[f \in Files |-> IF f = bad THEN how ELSE "ok"] :
             bad \in Files, how \in {"missing", "corrupt"}}

\* the order in which _load_models goes through its files
LoadOrder == <<"knn_model", "tfidf_vectorizer", "item_user_matrix", "tfidf_matrix",
               "mappings">>

RECURSIVE LoadInOrder(_, _)
\* the body of the try block of _load_models: a missing file is skipped, an
\* unreadable one raises and ends the block
LoadInOrder(f, order) ==
    IF order = <<>> THEN [loaded |-> {}, failed |-> FALSE]
    ELSE IF f[Head(order)] = "corrupt" THEN [loaded |-> {}, failed |-> TRUE]
    ELSE LET rest == LoadInOrder(f, Tail(order))
         IN  [loaded |-> (IF f[Head(order)] = "ok" THEN {Head(order)} ELSE {})
                             \cup rest.loaded,
              failed |-> rest.failed]

\* RecommendationService._load_models: the attributes it fills, and whether
\* the catalog scan that follows them in the try block filled the catalog
_load_models(f) ==
    LET r == LoadInOrder(f, LoadOrder)
    IN  [loaded |-> r.loaded, metadata |-> ~r.failed /\ f["metadata"] = "ok"]

\* DemandService._load_data: the attributes it fills
_load_data(f) == IF f["weekly_demand"] = "ok" THEN {"weekly_demand"} ELSE {}

\* DemandService._load_forecast_model: model and info are read only when
\* both files exist, the model first
_load_forecast_model(f) ==
    IF f["forecast_model"] = "missing" \/ f["model_info"] = "missing" THEN {}
    ELSE IF f["forecast_model"] = "corrupt" THEN {}
    ELSE IF f["model_info"] = "corrupt" THEN {"forecast_model"}
    ELSE {"forecast_model", "model_info"}

\* the product records of the metadata file
CatalogOnDisk == CatalogOf([p \in Products |-> "img"])

----------------------------------------------------------------------------
(* Construction of the two singleton services: __new__ and __init__ *)

Classes == {"RecommendationService", "DemandService"}

\* the threads that may construct a service
Threads == {"t1", "t2"}

\* the objects object.__new__ can hand out
ObjIds == 1..(Cardinality(Threads) * MaxCtor)

\* the attributes the loaders of class c fill
ArtifactsOf(c) == IF c = "RecommendationService" THEN RecArtifacts ELSE DemandArtifacts

\* what the load of class c leaves not None: _load_models, or _load_data
\* followed by _load_forecast_model
LoadedBy(c, f) ==
    IF c = "RecommendationService" THEN _load_models(f).loaded
    ELSE _load_data(f) \cup _load_forecast_model(f)

\* the object the next object.__new__ returns
FreshObj == 1 + Cardinality({o \in ObjIds : obj_initialized[o] # "free"})

\* the request variables, which no construction step touches
requestVars == <<req, outcome, response, recLocals, demandLocals>>

\* the data the files hold, which no construction step touches
dataVars == <<item_user_matrix, tfidf_matrix, mappings, weekly_demand, files, loading>>

\* a construction returns to its caller: the object (0 when it raised) and
\* how far that object's load had got
ReturnToCaller(t, o, load) ==
    /\ obtained' = [obtained EXCEPT ![t] =
                       Append(@, [cls |-> constructing[t], obj |-> o, load |-> load])]
    /\ pc' = [pc EXCEPT ![t] = "idle"]

\* thread t calls Cls()
Construct(t) ==
    /\ pc[t] = "idle"
    /\ calls[t] < MaxCtor
    /\ \E c \in Classes : constructing' = [constructing EXCEPT ![t] = c]
    /\ calls' = [calls EXCEPT ![t] = @ + 1]
    /\ self' = [self EXCEPT ![t] = 0]
    /\ pc' = [pc EXCEPT ![t] = "new_check"]
    /\ UNCHANGED <<artifacts, product_metadata, cls_instance, obj_initialized, obj_load,
                   load_runs, obtained, requestVars, dataVars>>

\* __new__: if cls._instance is None
NewCheck(t) ==
    /\ pc[t] = "new_check"
    /\ pc' = [pc EXCEPT ![t] = IF cls_instance[constructing[t]] = 0
                               THEN "new_create" ELSE "new_return"]
    /\ UNCHANGED <<artifacts, product_metadata, cls_instance, obj_initialized, obj_load,
                   load_runs, constructing, self, calls, obtained, requestVars, dataVars>>

\* __new__: cls._instance = super().__new__(cls); the new object has no
\* attribute yet
NewCreate(t) ==
    /\ pc[t] = "new_create"
    /\ cls_instance' = [cls_instance EXCEPT ![constructing[t]] = FreshObj]
    /\ obj_initialized' = [obj_initialized EXCEPT ![FreshObj] = "unset"]
    /\ obj_load' = [obj_load EXCEPT ![FreshObj] = "none"]
    /\ artifacts' = artifacts \ ArtifactsOf(constructing[t])
    /\ product_metadata' = IF constructing[t] = "RecommendationService"
                           THEN <<>> ELSE product_metadata
    /\ pc' = [pc EXCEPT ![t] = "new_flag"]
    /\ UNCHANGED <<load_runs, constructing, self, calls, obtained, requestVars, dataVars>>

\* __new__: cls._instance._initialized = False
NewFlag(t) ==
    /\ pc[t] = "new_flag"
    /\ obj_initialized' = [obj_initialized EXCEPT ![cls_instance[constructing[t]]] = "false"]
    /\ pc' = [pc EXCEPT ![t] = "new_return"]
    /\ UNCHANGED <<artifacts, product_metadata, cls_instance, obj_load, load_runs,
                   constructing, self, calls, obtained, requestVars, dataVars>>

\* __new__: return cls._instance
NewReturn(t) ==
    /\ pc[t] = "new_return"
    /\ self' = [self EXCEPT ![t] = cls_instance[constructing[t]]]
    /\ pc' = [pc EXCEPT ![t] = "init_check"]
    /\ UNCHANGED <<artifacts, product_metadata, cls_instance, obj_initialized, obj_load,
                   load_runs, constructing, calls, obtained, requestVars, dataVars>>

\* __init__: if self._initialized: return (AttributeError when the
\* attribute has not been set yet)
InitCheck(t) ==
    /\ pc[t] = "init_check"
    /\ IF obj_initialized[self[t]] = "unset" THEN ReturnToCaller(t, 0, "raised")
       ELSE IF obj_initialized[self[t]] = "true"
            THEN ReturnToCaller(t, self[t], obj_load[self[t]])
       ELSE /\ pc' = [pc EXCEPT ![t] = "init_set"]
            /\ UNCHANGED obtained
    /\ UNCHANGED <<artifacts, product_metadata, cls_instance, obj_initialized, obj_load,
                   load_runs, constructing, self, calls, requestVars, dataVars>>

\* whether thread t's object is the one the class holds
HoldsInstance(t) == self[t] = cls_instance[constructing[t]]

\* __init__: the attributes are set to None, then _initialized = True
InitSet(t) ==
    /\ pc[t] = "init_set"
    /\ obj_initialized' = [obj_initialized EXCEPT ![self[t]] = "true"]
    /\ artifacts' = IF HoldsInstance(t) THEN artifacts \ ArtifactsOf(constructing[t])
                    ELSE artifacts
    /\ product_metadata' = IF HoldsInstance(t) /\ constructing[t] = "RecommendationService"
                           THEN <<>> ELSE product_metadata
    /\ pc' = [pc EXCEPT ![t] = "load"]
    /\ UNCHANGED <<cls_instance, obj_load, load_runs, constructing, self, calls,
                   obtained, requestVars, dataVars>>

\* __init__: the loader is entered
LoadStart(t) ==
    /\ pc[t] = "load"
    /\ obj_load' = [obj_load EXCEPT ![self[t]] = "loading"]
    /\ load_runs' = [load_runs EXCEPT ![constructing[t]] = @ + 1]
    /\ pc' = [pc EXCEPT ![t] = "loading"]
    /\ UNCHANGED <<artifacts, product_metadata, cls_instance, obj_initialized,
                   constructing, self, calls, obtained, requestVars, dataVars>>

\* __init__: the loader returns (it catches what its reads raise), and with
\* it the construction
LoadFinish(t) ==
    /\ pc[t] = "loading"
    /\ obj_load' = [obj_load EXCEPT ![self[t]] = "done"]
    /\ artifacts' = IF HoldsInstance(t)
                    THEN (artifacts \ ArtifactsOf(constructing[t]))
                             \cup LoadedBy(constructing[t], files)
                    ELSE artifacts
    /\ product_metadata' = IF HoldsInstance(t) /\ constructing[t] = "RecommendationService"
                           THEN (IF _load_models(files).metadata THEN CatalogOnDisk ELSE <<>>)
                           ELSE product_metadata
    /\ ReturnToCaller(t, self[t], "done")
    /\ UNCHANGED <<cls_instance, obj_initialized, load_runs, constructing, self, calls,
                   requestVars, dataVars>>

\* the loaders are not running: their inputs and locals are out of the picture
NotLoading ==
    /\ meta_stream = <<>>
    /\ scan_offset = 0
    /\ found = 0
    /\ scan_pc = "done"
    /\ reviews = <<>>

\* the state the import of the two service modules leaves: each class holds
\* its one object, loaded
Constructed ==
    /\ NotLoading
    /\ cls_instance = [c \in Classes |-> IF c = "RecommendationService" THEN 1 ELSE 2]
    /\ obj_initialized = [o \in ObjIds |-> IF o <= 2 THEN "true" ELSE "free"]
    /\ obj_load = [o \in ObjIds |-> IF o <= 2 THEN "done" ELSE "none"]
    /\ load_runs = [c \in Classes |-> 1]
    /\ pc = [t \in Threads |-> "idle"]
    /\ constructing = [t \in Threads |-> "RecommendationService"]
    /\ self = [t \in Threads |-> 0]
    /\ calls = [t \in Threads |-> 0]
    /\ obtained = [t \in Threads |-> <<>>]

NoReport == [trend |-> "", total_demand |-> 0]

NoRequest == [op |-> "none", asin |-> "", n |-> 0, cf_weight |-> 0]

\* no request is being served
Idle ==
    /\ req = NoRequest
    /\ cf_recs = <<>>
    /\ cb_recs = <<>>
    /\ scores = <<>>
    /\ result = <<>>
    /\ body = <<>>
    /\ outcome = "idle"
    /\ response = 0
    /\ demand_report = NoReport
    /\ historical = <<>>
    /\ forecasts = <<>>
    /\ loop_i = 0
    /\ historical_std = 0
    /\ trend = 0
    /\ branch = "none"

InitRec ==
    /\ artifacts = RecArtifacts \cup DemandArtifacts
    /\ mappings = LoadedMappings
    /\ item_user_matrix \in Matrices(5)
    /\ tfidf_matrix \in Matrices(4)
    /\ \E st \in CatalogStates : product_metadata = CatalogOf(st)
    /\ weekly_demand = <<>>
    /\ files = [f \in Files |-> "ok"]
    /\ Constructed
    /\ Idle

\* the response has been sent: the request's locals are gone and the
\* service waits for the next request
Complete ==
    /\ outcome # "idle"
    /\ req' = NoRequest
    /\ cf_recs' = <<>>
    /\ cb_recs' = <<>>
    /\ scores' = <<>>
    /\ result' = <<>>
    /\ body' = <<>>
    /\ outcome' = "idle"
    /\ response' = 0
    /\ demand_report' = NoReport
    /\ historical' = <<>>
    /\ forecasts' = <<>>
    /\ loop_i' = 0
    /\ historical_std' = 0
    /\ trend' = 0
    /\ branch' = "none"
    /\ UNCHANGED svc

\* the requests of this specification ask for small n, for which no call of
\* the model raises
NextRec ==
    \/ CollaborativeEndpoint(SmallCounts)
    \/ ContentEndpoint(SmallCounts)
    \/ HybridEndpoint(SmallCounts)
    \/ Complete

SpecRec == InitRec /\ [][NextRec]_vars

----------------------------------------------------------------------------
(* DemandService: per-product demand and trend *)

RECURSIVE SumSeq(_)
SumSeq(s) == IF s = <<>> THEN 0 ELSE Head(s) + SumSeq(Tail(s))

\* x * num / den, rounded towards zero
MulFrac(x, num, den) ==
    IF x >= 0 THEN (x * num) \div den ELSE 0 - (((0 - x) * num) \div den)

\* np.mean of a non-empty list, as the exact fraction sum / length
Mean(s) == [num |-> SumSeq(s), den |-> Len(s)]

\* a > b * pct / 100 for two fractions a and b
Above(a, b, pct) == a.num * b.den * 100 > b.num * a.den * pct

\* a < b * pct / 100 for two fractions a and b
Below(a, b, pct) == a.num * b.den * 100 < b.num * a.den * pct

\* DemandService.is_ready
demand_is_ready == "weekly_demand" \in artifacts

\* weekly_demand.filter(parent_asin == asin).sort('year_week'): the demands
ProductData(asin) ==
    IF asin \in DOMAIN weekly_demand THEN weekly_demand[asin] ELSE <<>>

\* mutant: the midpoint is rounded up
TrendOf_MidRoundedUp(demands) ==
    LET mid == (Len(demands) + 1) \div 2
    IN  IF mid > 0 /\ mid < Len(demands)
        THEN LET first_half_avg == Mean(Take(demands, mid))
                 second_half_avg == Mean(Drop(demands, mid))
             IN  IF Above(second_half_avg, first_half_avg, 110) THEN "increasing"
                 ELSE IF Below(second_half_avg, first_half_avg, 90) THEN "decreasing"
                 ELSE "stable"
        ELSE "insufficient_data"

\* the trend label of get_product_demand
TrendOf(demands) ==
    LET mid == Len(demands) \div 2
    IN  IF mid > 0
        THEN LET first_half_avg == Mean(Take(demands, mid))
                 second_half_avg == Mean(Drop(demands, mid))
             IN  IF Above(second_half_avg, first_half_avg, 110) THEN "increasing"
                 ELSE IF Below(second_half_avg, first_half_avg, 90) THEN "decreasing"
                 ELSE "stable"
        ELSE "insufficient_data"

\* DemandService.get_product_demand: found is FALSE where the code returns None
get_product_demand(asin) ==
    IF ~demand_is_ready THEN [found |-> FALSE, report |-> NoReport]
    ELSE LET demands == ProductData(asin)
         IN  IF Len(demands) = 0 THEN [found |-> FALSE, report |-> NoReport]
             ELSE [found |-> TRUE,
                   report |-> [trend |-> TrendOf(demands),
                               total_demand |-> SumSeq(demands)]]

\* product IDs a demand request may name: one with a series, one without
DemandAsins == {"A", UnknownAsin}

\* routers.demand.get_product_demand
ProductDemandEndpoint ==
    \E asin \in DemandAsins :
        LET o == get_product_demand(asin)
        IN  /\ outcome = "idle"
            /\ req' = [op |-> "product_demand", asin |-> asin, n |-> 0, cf_weight |-> 0]
            /\ outcome' = IF o.found THEN "returned" ELSE "none"
            /\ response' = IF o.found THEN 200 ELSE 404
            /\ demand_report' = o.report
            /\ UNCHANGED <<svc, recLocals, historical, forecasts, loop_i, historical_std, trend,
                           branch>>

\* DemandService.metadata: filled from the metadata file once the demand
\* table is built, left empty when the table or the file could not be read
demand_metadata ==
    IF demand_is_ready /\ files["metadata"] = "ok"
    THEN [p \in DOMAIN CatalogOnDisk |->
             [title |-> CatalogOnDisk[p].title, categories |-> CatalogOnDisk[p].categories]]
    ELSE <<>>

\* a product's row of DemandService.product_stats; avg_weekly_demand in
\* hundredths, as the operations round it
StatsRow(asin) ==
    [parent_asin |-> asin,
     num_weeks |-> Len(weekly_demand[asin]),
     total_demand |-> SumSeq(weekly_demand[asin]),
     avg_weekly_demand |-> RoundHalfEven(SumSeq(weekly_demand[asin]) * 100,
                                         Len(weekly_demand[asin]))]

\* DemandService.product_stats: the rows by descending total demand, as any
\* of the orders the sort may give to products of equal demand
product_stats ==
    LET key == [a \in DOMAIN weekly_demand |-> 0 - SumSeq(weekly_demand[a])]
    IN  {[k \in 1..Len(order) |-> StatsRow(order[k])] :
            order \in TieOrders(DOMAIN weekly_demand, key)}

\* the weeks of the table: the model's products share one calendar, week w
\* is the w-th entry of every series
Weeks ==
    1..(CHOOSE m \in 0..MaxLen :
           /\ \A a \in DOMAIN weekly_demand : Len(weekly_demand[a]) <= m
           /\ m = 0 \/ \E a \in DOMAIN weekly_demand : Len(weekly_demand[a]) = m)

\* the products that have a record in week w
ActiveIn(w) == {a \in DOMAIN weekly_demand : Len(weekly_demand[a]) >= w}

RECURSIVE SumOver(_, _)
\* the demand of week w summed over the products of S
SumOver(S, w) ==
    IF S = {} THEN 0
    ELSE LET a == CHOOSE x \in S : TRUE
         IN  weekly_demand[a][w] + SumOver(S \ {a}, w)

RECURSIVE SumWeeks(_)
SumWeeks(W) ==
    IF W = {} THEN 0
    ELSE LET w == CHOOSE x \in W : TRUE
         IN  SumOver(ActiveIn(w), w) + SumWeeks(W \ {w})

\* DemandService.get_stats, with the defaults of DemandStats; start and end
\* of the time range are 0 where the code has None
demand_get_stats ==
    IF ~demand_is_ready
    THEN [status |-> "not_loaded", total_products |-> 0, total_weeks |-> 0,
          total_demand |-> 0, start |-> 0, end |-> 0]
    ELSE [status |-> "ready",
          total_products |-> Cardinality(DOMAIN weekly_demand),
          total_weeks |-> Cardinality(Weeks),
          total_demand |-> SumWeeks(Weeks),
          start |-> IF Weeks = {} THEN 0 ELSE 1,
          end |-> Cardinality(Weeks)]

\* the title get_top_products shows: the product ID where the metadata has
\* no record (the titles of the model are shorter than 60 characters)
ShownTitle(asin) ==
    IF asin \in DOMAIN demand_metadata THEN demand_metadata[asin].title ELSE <<asin>>

\* DemandService.get_top_products, the stats rows being rows
get_top_products(rows, limit) ==
    IF ~demand_is_ready THEN <<>>
    ELSE [k \in 1..Min(limit, Len(rows)) |->
             [asin |-> rows[k].parent_asin,
              title |-> ShownTitle(rows[k].parent_asin),
              total_demand |-> rows[k].total_demand,
              avg_weekly_demand |-> rows[k].avg_weekly_demand,
              num_weeks |-> rows[k].num_weeks]]

\* DemandService.get_overall_trend
get_overall_trend ==
    IF ~demand_is_ready THEN <<>>
    ELSE [w \in Weeks |->
             [week |-> w,
              total_demand |-> SumOver(ActiveIn(w), w),
              active_products |-> Cardinality(ActiveIn(w))]]

RECURSIVE CategoryTotals(_, _)
\* the first loop of get_category_demand: the dict category_demand, its
\* keys in the order they were inserted
CategoryTotals(category_demand, rows) ==
    IF rows = <<>> THEN category_demand
    ELSE LET row == Head(rows)
             categories == IF row.parent_asin \in DOMAIN demand_metadata
                           THEN demand_metadata[row.parent_asin].categories
                           ELSE <<>>
         IN  IF Len(categories) = 0 THEN CategoryTotals(category_demand, Tail(rows))
             ELSE LET cat == categories[1]
                      known == \E k \in 1..Len(category_demand) :
                                   category_demand[k].category = cat
                      added == IF known THEN category_demand
                               ELSE Append(category_demand,
                                           [category |-> cat, score |-> 0, products |-> 0])
                  IN  CategoryTotals(
                          [k \in 1..Len(added) |->
                              IF added[k].category = cat
                              THEN [category |-> cat,
                                    score |-> added[k].score + row.total_demand,
                                    products |-> added[k].products + 1]
                              ELSE added[k]],
                          Tail(rows))

\* the largest number of categories get_category_demand returns
TopCategories == 15

\* DemandService.get_category_demand, the stats rows being rows; score is
\* the demand the categories are sorted by
get_category_demand(rows) ==
    IF ~demand_is_ready \/ DOMAIN demand_metadata = {} THEN <<>>
    ELSE LET sorted_cats == Take(SortedDescending(<<>>, CategoryTotals(<<>>, rows)),
                                 TopCategories)
         IN  [k \in 1..Len(sorted_cats) |->
                 [category |-> sorted_cats[k].category,
                  total_demand |-> sorted_cats[k].score,
                  num_products |-> sorted_cats[k].products]]

\* a read operation of the demand service has answered
DemandAnswered(op, b) ==
    /\ outcome = "idle"
    /\ req' = [op |-> op, asin |-> "", n |-> 0, cf_weight |-> 0]
    /\ outcome' = "returned"
    /\ response' = 200
    /\ body' = b
    /\ NoRecommendation
    /\ UNCHANGED <<svc, demandLocals>>

\* routers.demand.get_demand_stats
DemandStatsEndpoint == DemandAnswered("demand_stats", <<demand_get_stats>>)

\* routers.demand.get_top_products
TopProductsEndpoint ==
    \E limit \in ListLimits, rows \in product_stats :
        DemandAnswered("top_products", get_top_products(rows, limit))

\* routers.demand.get_overall_trend
OverallTrendEndpoint == DemandAnswered("overall_trend", get_overall_trend)

\* routers.demand.get_category_demand
CategoryDemandEndpoint ==
    \E rows \in product_stats :
        DemandAnswered("categories", get_category_demand(rows))

----------------------------------------------------------------------------
(* DemandService.generate_forecast: demand values in thousandths *)

\* np.mean of a non-empty list of fixed-point values
MeanOf(s) == SumSeq(s) \div Len(s)

\* np.std (population standard deviation) of a non-empty list
StdOf(s) ==
    LET m == MeanOf(s)
    IN  ISqrt(SumSeq([k \in 1..Len(s) |-> (s[k] - m) * (s[k] - m)]) \div Len(s))

\* s[-k:] of Python, k > 0
LastN(s, k) == SubSeq(s, Max(1, Len(s) - k + 1), Len(s))

\* mutant: the buffer is seeded with the last three weeks only
SeedHistory_RecentOnly(demands) ==
    [k \in 1..Min(3, Len(demands)) |-> demands[Len(demands) - Min(3, Len(demands)) + k] * 1000]

\* historical = [float(d) for d in demands]
SeedHistory(demands) == [k \in 1..Len(demands) |-> demands[k] * 1000]

\* historical_std before the loop
SeedStd(h) == IF Len(h) >= 8 THEN StdOf(LastN(h, 8)) ELSE 200

\* trend before the loop: mean of the last 4 minus mean of the 4 before them
SeedTrend(h) ==
    IF Len(h) >= 8
    THEN MeanOf(LastN(h, 4)) - MeanOf(SubSeq(h, Len(h) - 7, Len(h) - 4))
    ELSE 0

\* what forecast_model.predict may do in step i: raise, return one of
\* PredValues, or return a value close to the previous emitted forecast
PredValues == {-1000, 40, 5004}
NearOffsets == {0, 145}

ModelOutcomes(fc) ==
    {[raises |-> TRUE, value |-> 0]}
    \cup {[raises |-> FALSE, value |-> v] : v \in PredValues}
    \cup (IF fc = <<>> THEN {}
          ELSE {[raises |-> FALSE, value |-> fc[Len(fc)].demand + d] : d \in NearOffsets})

\* mutant: the prediction is emitted without the floor at 0.1
FloorPrediction_NoFloor(pred) == pred

\* pred = max(0.1, pred)
FloorPrediction(pred) == Max(100, pred)

\* the body of the forecast loop up to the value of pred, with the branch
\* that produced it
StepPrediction(h, fc, step, hstd, tr, m) ==
    IF Len(h) < 4
    THEN LET avg_demand == IF h = <<>> THEN 1000 ELSE MeanOf(h)
         IN  [pred |-> FloorPrediction(avg_demand + ((step % 3) - 1) * 100),
              branch |-> "short_history"]
    ELSE LET rolling_mean_4 == MeanOf(LastN(h, 4))
             direction == IF step % 2 = 0 THEN 1 ELSE -1
         IN  IF m.raises
             THEN LET variation == MulFrac(hstd, 3, 10) * direction
                  IN  [pred |-> FloorPrediction(rolling_mean_4 + variation
                                         + MulFrac(tr * (step + 1), 1, 10)),
                       branch |-> "exception"]
             ELSE LET pred == FloorPrediction(m.value)
                  IN  IF step > 0
                      THEN LET last_pred == fc[Len(fc)].demand
                           IN  IF Abs(pred - last_pred) < 150
                               THEN LET base_variation == Max(hstd \div 2, 200)
                                        variation == MulFrac(base_variation * direction,
                                                             100 + step * 15, 100)
                                        trend_component == MulFrac(tr * (step + 1), 15, 100)
                                    IN  [pred |-> FloorPrediction(rolling_mean_4 + variation
                                                           + trend_component),
                                         branch |-> "corrected"]
                               ELSE IF Abs(pred - last_pred) < 50
                               THEN [pred |-> FloorPrediction(last_pred
                                                  + (IF step % 2 = 0 THEN 150 ELSE -150)),
                                     branch |-> "forced"]
                               ELSE [pred |-> pred, branch |-> "plain"]
                      ELSE [pred |-> pred, branch |-> "plain"]

\* round(pred, 2), in thousandths
Round2(pred) == RoundHalfEven(pred, 10) * 10

\* mutant: the buffer is never truncated
PushHistory_NoTruncate(h, pred) == Append(h, pred)

\* historical.append(pred), then historical = historical[-20:] if longer
PushHistory(h, pred) ==
    LET appended == Append(h, pred)
    IN  IF Len(appended) > 20 THEN LastN(appended, 20) ELSE appended

\* mutant: the check is off by one
InsufficientHistory_OffByOne(product_data) == Len(product_data) <= 10

\* the check of generate_forecast that needs at least 10 weeks
InsufficientHistory(product_data) == Len(product_data) < 10

\* generate_forecast up to the loop: the checks that return None, else the
\* seeding of the history buffer (routers.demand.get_product_forecast calls it)
ForecastCall ==
    \E asin \in DemandAsins, weeks \in 1..MaxWeeks :
        LET product_data == ProductData(asin)
            unavailable == \/ ~demand_is_ready
                           \/ "forecast_model" \notin artifacts
                           \/ InsufficientHistory(product_data)
            \* self.model_info.get(...) on None raises AttributeError
            no_info == ~unavailable /\ "model_info" \notin artifacts
            stopped == unavailable \/ no_info
        IN  /\ outcome = "idle"
            /\ req' = [op |-> "forecast", asin |-> asin, n |-> weeks, cf_weight |-> 0]
            /\ outcome' = IF unavailable THEN "none"
                          ELSE IF no_info THEN "raised" ELSE "running"
            /\ response' = IF unavailable THEN 404 ELSE IF no_info THEN 500 ELSE 0
            /\ historical' = IF stopped THEN <<>> ELSE SeedHistory(product_data)
            /\ historical_std' = IF stopped THEN 0 ELSE SeedStd(SeedHistory(product_data))
            /\ trend' = IF stopped THEN 0 ELSE SeedTrend(SeedHistory(product_data))
            /\ forecasts' = <<>>
            /\ loop_i' = 0
            /\ branch' = "none"
            /\ UNCHANGED <<svc, recLocals, demand_report>>

\* mutant: the history buffer is fed the rounded value that is displayed
ForecastStep_PushesRounded ==
    /\ outcome = "running"
    /\ loop_i < req.n
    /\ \E m \in ModelOutcomes(forecasts) :
          LET s == StepPrediction(historical, forecasts, loop_i, historical_std, trend, m)
          IN  /\ forecasts' = Append(forecasts, [week |-> <<"Forecast", loop_i + 1>>,
                                                 demand |-> Round2(s.pred),
                                                 is_forecast |-> TRUE])
              /\ historical' = PushHistory(historical, Round2(s.pred))
              /\ branch' = s.branch
    /\ loop_i' = loop_i + 1
    /\ UNCHANGED <<svc, recLocals, req, outcome, response, demand_report,
                   historical_std, trend>>

\* one iteration of the forecast loop
ForecastStep ==
    /\ outcome = "running"
    /\ loop_i < req.n
    /\ \E m \in ModelOutcomes(forecasts) :
          LET s == StepPrediction(historical, forecasts, loop_i, historical_std, trend, m)
          IN  /\ forecasts' = Append(forecasts, [week |-> <<"Forecast", loop_i + 1>>,
                                                 demand |-> Round2(s.pred),
                                                 is_forecast |-> TRUE])
              /\ historical' = PushHistory(historical, s.pred)
              /\ branch' = s.branch
    /\ loop_i' = loop_i + 1
    /\ UNCHANGED <<svc, recLocals, req, outcome, response, demand_report,
                   historical_std, trend>>

\* the loop is over: generate_forecast returns the dict and the endpoint
\* answers with it
ForecastReturn ==
    /\ outcome = "running"
    /\ loop_i >= req.n
    /\ outcome' = "returned"
    /\ response' = 200
    /\ UNCHANGED <<svc, recLocals, req, demand_report, historical, forecasts, loop_i,
                   historical_std, trend, branch>>

----------------------------------------------------------------------------
(* The demand service after startup, serving requests *)

\* a series of len weeks: base events a week, base + step from week k + 1 on
StepSeries(len, k, base, step) ==
    [w \in 1..len |-> IF w > k THEN base + step ELSE base]

SeriesLengths == {1, 2, 3, 8, 9, 10, MaxLen}

\* the step is at the midpoint, rounded down or up
SeriesFamily ==
    UNION {{StepSeries(len, k, 10, step) :
               k \in {len \div 2, (len + 1) \div 2}, step \in {-9, -2, -1, 0, 1, 2, 10}} :
           len \in SeriesLengths}

InitDemand ==
    /\ artifacts = RecArtifacts \cup DemandArtifacts
    /\ mappings = LoadedMappings
    /\ item_user_matrix = [r \in 0..4 |-> IF r < 2 THEN <<1, 0>> ELSE <<1, 1>>]
    /\ tfidf_matrix = [r \in 0..3 |-> IF r < 2 THEN <<1, 0>> ELSE <<1, 1>>]
    /\ product_metadata = CatalogOf([p \in Products |-> "img"])
    /\ \E series \in SeriesFamily : weekly_demand = [a \in {"A"} |-> series]
    /\ files = [f \in Files |-> "ok"]
    /\ Constructed
    /\ Idle

NextDemand ==
    ProductDemandEndpoint \/ ForecastCall \/ ForecastStep \/ ForecastReturn \/ Complete

SpecDemand == InitDemand /\ [][NextDemand]_vars

----------------------------------------------------------------------------
(* Both services after startup, serving requests of every kind *)

\* the matrices of n rows whose first two rows are identical
TiedMatrices(n) == {m \in Matrices(n) : m[1] = m[0]}

\* the services as the two loaders leave them, whatever the files were
InitService ==
    /\ files \in FileStates
    /\ artifacts = LoadedBy("RecommendationService", files)
                       \cup LoadedBy("DemandService", files)
    /\ mappings = LoadedMappings
    /\ item_user_matrix \in TiedMatrices(5)
    /\ tfidf_matrix \in TiedMatrices(4)
    /\ product_metadata = IF _load_models(files).metadata THEN CatalogOnDisk ELSE <<>>
    /\ Constructed
    /\ \E len \in {9, 10} : weekly_demand = [a \in {"A"} |-> StepSeries(len, 0, 10, 0)]
    /\ Idle

NextService ==
    \/ CollaborativeEndpoint(QueryCounts)
    \/ ContentEndpoint(QueryCounts)
    \/ HybridEndpoint(QueryCounts)
    \/ ProductDetailsEndpoint
    \/ ListProductsEndpoint
    \/ SearchEndpoint
    \/ StatsEndpoint
    \/ DemandStatsEndpoint
    \/ TopProductsEndpoint
    \/ OverallTrendEndpoint
    \/ CategoryDemandEndpoint
    \/ ProductDemandEndpoint
    \/ ForecastCall
    \/ ForecastStep
    \/ ForecastReturn
    \/ Complete

SpecService == InitService /\ [][NextService]_vars

----------------------------------------------------------------------------
(* Properties *)

\* the product IDs of a list of recommendations, in order
AsinsOf(list) == [k \in 1..Len(list) |-> list[k].asin]

\* the value a returned list is ranked by
RankOf(item) == IF "score" \in DOMAIN item THEN item.score ELSE item.similarity

Descending(list) ==
    \A j, k \in 1..Len(list) : j < k => RankOf(list[j]) >= RankOf(list[k])

Returned(op) == req.op = op /\ outcome = "returned"

\* C1: the list get_collaborative_recommendations returns for a product of
\* the collaborative mapping never contains that product, also when other
\* rows lie at distance 0 from the query row.
C1_CollaborativeExcludesQuery ==
    (Returned("collaborative") /\ req.asin \in DOMAIN mappings.product_to_idx)
        => \A k \in 1..Len(result) : result[k].asin # req.asin

\* C2: the list get_content_recommendations returns for a product of the
\* content mapping never contains that product, also when another product's
\* vector is identical (similarity 1.0).
C2_ContentExcludesQuery ==
    (Returned("content") /\ req.asin \in DOMAIN mappings.cb_product_to_idx)
        => \A k \in 1..Len(result) : result[k].asin # req.asin

\* C3: when both underlying lists are non-empty the combined score of a
\* product is cf_weight * simCF + (1 - cf_weight) * simCB if it is in both
\* lists, simCF * cf_weight if only in the collaborative list and
\* simCB * (1 - cf_weight) if only in the content list; the emitted score is
\* that value rounded to 3 decimals.
C3_HybridScore ==
    (Returned("hybrid") /\ cf_recs # <<>> /\ cb_recs # <<>>) =>
        LET cfA == Range(AsinsOf(cf_recs))
            cbA == Range(AsinsOf(cb_recs))
            simCF(a) == (CHOOSE r \in Range(cf_recs) : r.asin = a).similarity
            simCB(a) == (CHOOSE r \in Range(cb_recs) : r.asin = a).similarity
            w == req.cf_weight
            combined(a) ==
                IF a \in cfA /\ a \in cbA THEN w * simCF(a) + (1000 - w) * simCB(a)
                ELSE IF a \in cfA THEN simCF(a) * w
                ELSE simCB(a) * (1000 - w)
        IN  /\ Range(AsinsOf(scores)) = cfA \cup cbA
            /\ \A k \in 1..Len(scores) : scores[k].score = combined(scores[k].asin)
            /\ \A k \in 1..Len(result) :
                  /\ result[k].asin \in cfA \cup cbA
                  /\ result[k].score = RoundHalfEven(combined(result[k].asin), 1000)

\* a hybrid request at weight 0.6 whose score map holds a product of both
\* lists, one of the collaborative list only and one of the content list only
C3_Witness ==
    /\ Returned("hybrid")
    /\ req.cf_weight = 600
    /\ cf_recs # <<>>
    /\ cb_recs # <<>>
    /\ result # <<>>
    /\ Range(AsinsOf(cf_recs)) \cap Range(AsinsOf(cb_recs)) # {}
    /\ Range(AsinsOf(cf_recs)) \ Range(AsinsOf(cb_recs)) # {}
    /\ Range(AsinsOf(cb_recs)) \ Range(AsinsOf(cf_recs)) # {}

C5_ForecastAtLeastFloor ==
    \A k \in 1..Len(forecasts) : forecasts[k].demand >= 100

\* two steps have run and the second, in the exception fallback, emitted
\* exactly the floor
C5_Witness ==
    /\ Len(forecasts) >= 2
    /\ branch = "exception"
    /\ forecasts[Len(forecasts)].demand = 100

\* C6: a forecast is produced if and only if the product has at least 10
\* weekly records (9: None and 404; 10: a forecast), and a forecast has the
\* requested number of points.
C6_ForecastIffTenWeeks ==
    (req.op = "forecast" /\ outcome # "idle") =>
        /\ outcome \in {"none", "running", "returned"}
        /\ outcome = "none" <=> Len(ProductData(req.asin)) < 10
        /\ outcome = "none" => response = 404
        /\ outcome = "running" => loop_i <= req.n
        /\ outcome = "returned" => (response = 200 /\ Len(forecasts) = req.n)

\* a product with exactly 10 weeks got a forecast of the requested length
C6_Witness ==
    /\ req.op = "forecast"
    /\ outcome = "returned"
    /\ Len(ProductData(req.asin)) = 10
    /\ req.n > 1
    /\ Len(forecasts) = req.n

\* C7: with the artifacts loaded, a request that names a product unknown to
\* the relevant mapping or to the demand table is answered 404 and the
\* service call does not raise.
C7_UnknownProductNotFound ==
    LET unknownCF == req.asin \notin DOMAIN mappings.product_to_idx
        unknownCB == req.asin \notin DOMAIN mappings.cb_product_to_idx
        forecastReady == demand_is_ready /\ "forecast_model" \in artifacts
    IN  /\ (req.op = "collaborative" /\ is_ready /\ unknownCF)
              => (response = 404 /\ outcome = "returned")
        /\ (req.op = "content" /\ is_ready /\ unknownCB)
              => (response = 404 /\ outcome = "returned")
        /\ (req.op = "hybrid" /\ is_ready /\ unknownCF /\ unknownCB)
              => (response = 404 /\ outcome = "returned")
        /\ (req.op = "forecast" /\ forecastReady /\ req.asin \notin DOMAIN weekly_demand)
              => (response = 404 /\ outcome = "none")

\* the collaborative endpoint answered 404 for a product of neither mapping
C7_Witness ==
    /\ is_ready
    /\ req.op = "collaborative"
    /\ req.asin = UnknownAsin
    /\ response = 404

\* C8 as claimed: hybrid at cf_weight = 1.0 returns the product IDs, in
\* order, of get_collaborative_recommendations(productID, n) cut to n.
C8_HybridEqualsCollaborativeN ==
    (Returned("hybrid") /\ req.cf_weight = 1000) =>
        \E o \in get_collaborative_recommendations(req.asin, req.n) :
            ~o.raised /\ AsinsOf(result) = AsinsOf(Take(o.list, req.n))

\* C8 as amended: with no negative collaborative similarity, hybrid at
\* cf_weight = 1.0 starts with the first n product IDs, in order, of the
\* collaborative list for 2n candidates that the call itself drew, and
\* whatever follows them is a content-only candidate of score 0; when that
\* collaborative list is empty the result is the content list for 2n
\* candidates cut to n.
C8_HybridFollowsCollaborativePool ==
    (/\ Returned("hybrid")
     /\ req.cf_weight = 1000
     /\ \A k \in 1..Len(cf_recs) : cf_recs[k].similarity >= 0) =>
        LET m == Min(req.n, Len(cf_recs))
        IN  IF cf_recs = <<>> THEN result = Take(cb_recs, req.n)
            ELSE /\ Len(result) >= m
                 /\ Len(result) <= req.n
                 /\ AsinsOf(Take(result, m)) = AsinsOf(Take(cf_recs, m))
                 /\ \A k \in (m + 1)..Len(result) :
                       /\ result[k].score = 0
                       /\ result[k].asin \notin Range(AsinsOf(cf_recs))
                       /\ result[k].asin \in Range(AsinsOf(cb_recs))

\* a hybrid request at weight 1.0 merged two non-empty lists into two results
C8_Witness ==
    /\ Returned("hybrid")
    /\ req.cf_weight = 1000
    /\ Len(cf_recs) >= 2
    /\ cb_recs # <<>>
    /\ Len(result) = 2
    /\ RankOf(cf_recs[1]) > RankOf(cf_recs[2])

\* C9: the trend label splits the series at mid = L div 2 and compares the
\* two means: increasing above 1.1 times the first mean, decreasing below 0.9
\* times, else stable, and insufficient_data exactly when L < 2.
C9_TrendLabel ==
    Returned("product_demand") =>
        LET d == ProductData(req.asin)
            L == Len(d)
            mid == L \div 2
            firstSum == SumSeq(SubSeq(d, 1, mid))
            secondSum == SumSeq(SubSeq(d, mid + 1, L))
            up == 10 * secondSum * mid > 11 * firstSum * (L - mid)
            down == 10 * secondSum * mid < 9 * firstSum * (L - mid)
            label == demand_report.trend
        IN  /\ label = "insufficient_data" <=> L < 2
            /\ L >= 2 => /\ label = "increasing" <=> up
                         /\ label = "decreasing" <=> (~up /\ down)
                         /\ label = "stable" <=> (~up /\ ~down)
            /\ d = <<10, 10, 10, 10, 20, 20, 20, 20>> => label = "increasing"
            /\ d = <<10, 10, 10, 10, 10, 10, 10, 10>> => label = "stable"

\* the series of the example was labelled
C9_Witness ==
    /\ Returned("product_demand")
    /\ ProductData(req.asin) = <<10, 10, 10, 10, 20, 20, 20, 20>>
    /\ demand_report.trend = "increasing"

\* C10: every list a recommender returns is in non-increasing order of
\* similarity (of combined score for a merged hybrid list), the two lists the
\* hybrid call draws included.
C10_ListsDescending ==
    (outcome = "returned" /\ req.op \in {"collaborative", "content", "hybrid"}) =>
        /\ Descending(result)
        /\ Descending(cf_recs)
        /\ Descending(cb_recs)

\* a merged hybrid list of two different scores, from a catalog in which the
\* display filter removes a product
C10_Witness ==
    /\ Returned("hybrid")
    /\ cf_recs # <<>>
    /\ cb_recs # <<>>
    /\ Len(result) >= 2
    /\ result[1].score > result[2].score
    /\ \E p \in Products : ~Truthy(get_product_details(p).image_url)

\* C11: every item a recommender returns carries a non-empty image_url, the
\* one its catalog record yields; a candidate absent from the catalog or
\* without an image is dropped.
C11_ReturnedItemsHaveImage ==
    (outcome = "returned" /\ req.op \in {"collaborative", "content", "hybrid"}) =>
        \A k \in 1..Len(result) :
            /\ Truthy(result[k].image_url)
            /\ result[k].asin \in DOMAIN product_metadata
            /\ Len(product_metadata[result[k].asin].images) > 0
            /\ result[k].image_url = product_metadata[result[k].asin].images[1]

\* the collaborative recommender drew n = 2 ranked candidates and returned
\* one, the other being a product that resolves to no image
C11_Witness ==
    /\ Returned("collaborative")
    /\ req.asin \in DOMAIN mappings.product_to_idx
    /\ req.n = 2
    /\ Len(result) = 1
    /\ \E p \in DOMAIN mappings.product_to_idx :
          p # req.asin /\ ~Truthy(get_product_details(p).image_url)

----------------------------------------------------------------------------
(* Startup with several threads constructing the services *)

InitStartup ==
    /\ files \in FileStates
    /\ artifacts = {}
    /\ mappings = LoadedMappings
    /\ item_user_matrix = [r \in 0..4 |-> IF r < 2 THEN <<1, 0>> ELSE <<1, 1>>]
    /\ tfidf_matrix = [r \in 0..3 |-> IF r < 2 THEN <<1, 0>> ELSE <<1, 1>>]
    /\ product_metadata = <<>>
    /\ weekly_demand = [a \in {"A"} |-> StepSeries(10, 5, 10, 0)]
    /\ cls_instance = [c \in Classes |-> 0]
    /\ obj_initialized = [o \in ObjIds |-> "free"]
    /\ obj_load = [o \in ObjIds |-> "none"]
    /\ load_runs = [c \in Classes |-> 0]
    /\ pc = [t \in Threads |-> "idle"]
    /\ constructing = [t \in Threads |-> "RecommendationService"]
    /\ self = [t \in Threads |-> 0]
    /\ calls = [t \in Threads |-> 0]
    /\ obtained = [t \in Threads |-> <<>>]
    /\ NotLoading
    /\ Idle

NextStartup ==
    \E t \in Threads :
        \/ Construct(t)
        \/ NewCheck(t)
        \/ NewCreate(t)
        \/ NewFlag(t)
        \/ NewReturn(t)
        \/ InitCheck(t)
        \/ InitSet(t)
        \/ LoadStart(t)
        \/ LoadFinish(t)

SpecStartup == InitStartup /\ [][NextStartup]_vars

\* C12: each artifact's load outcome is independent of the others: once the
\* service is constructed, every artifact whose file is readable is loaded,
\* whatever happened to the files read before it.
C12_LoadsAreIndependent ==
    LET o == cls_instance["RecommendationService"]
    IN  (/\ o # 0
         /\ obj_load[o] = "done"
         /\ load_runs["RecommendationService"] = 1
         /\ \A t \in Threads : pc[t] = "idle")
            => \A a \in RecArtifacts : files[a] = "ok" => a \in artifacts

\* C13: no call to get_collaborative_recommendations,
\* get_content_recommendations, get_hybrid_recommendations or
\* generate_forecast raises to its caller, whatever the product, the count
\* or horizon asked for and the load state of the artifacts.
C13_NoCallRaises ==
    req.op \in {"collaborative", "content", "hybrid", "forecast"}
        => outcome # "raised"

\* C14: an endpoint answers 'service not ready' (503), not 'not found',
\* whenever an artifact it requires is not loaded: the content endpoint
\* without the content matrix, the collaborative endpoint without the index,
\* the interaction matrix or the mappings, the forecast endpoint without the
\* regression model or the demand table.
C14_NotReadySignalled ==
    /\ (req.op = "content" /\ "tfidf_matrix" \notin artifacts) => response = 503
    /\ (req.op = "collaborative" /\ ~is_ready) => response = 503
    /\ (req.op = "forecast"
           /\ ("forecast_model" \notin artifacts \/ ~demand_is_ready)) => response = 503

\* C15: across any interleaving of constructions the load of a class runs
\* exactly once, every construction yields the same instance, and no caller
\* obtains an instance whose load has started but not completed.
C15_SingletonLoadedOnce ==
    /\ \A c \in Classes : load_runs[c] <= 1
    /\ \A t, u \in Threads : \A j \in 1..Len(obtained[t]), k \in 1..Len(obtained[u]) :
          /\ obtained[t][j].load = "done"
          /\ obtained[t][j].cls = obtained[u][k].cls
                => obtained[t][j].obj = obtained[u][k].obj

\* the data the two services hold once they are loaded
ServiceState ==
    <<artifacts, item_user_matrix, tfidf_matrix, mappings, product_metadata,
      weekly_demand>>


\* C16: no step of a request operation changes the service state: the loaded
\* attributes, the matrices, the mappings, the metadata catalog and the
\* weekly demand table (from which product_stats is derived) are the same
\* after every step as before it, in any sequence of requests.
C16_RequestsLeaveStateUnchanged == [][UNCHANGED ServiceState]_vars

\* a forecast has been returned: its history buffer has grown past the
\* series of the table it was seeded from
C16_Witness ==
    /\ req.op = "forecast"
    /\ outcome = "returned"
    /\ req.asin \in DOMAIN weekly_demand
    /\ Len(historical) > Len(weekly_demand[req.asin])

\* C17: get_product_details of a product ID that is not in the metadata
\* catalog returns the placeholder, and the endpoint answers 200 with it:
\* title 'Product {asin}', empty description, no image_url, price, rating,
\* rating_count or store, and an empty list of categories.
C17_PlaceholderForAbsentProduct ==
    (req.op = "product_details" /\ req.asin \notin DOMAIN product_metadata)
        => /\ outcome = "returned"
           /\ response = 200
           /\ body = <<[asin |-> req.asin,
                        title |-> <<"Product", req.asin>>,
                        description |-> <<>>,
                        image_url |-> None,
                        price |-> None,
                        rating |-> None,
                        rating_count |-> None,
                        store |-> None,
                        categories |-> <<>>]>>

\* a product absent from a non-empty catalog has been looked up
C17_Witness ==
    /\ req.op = "product_details"
    /\ outcome = "returned"
    /\ req.asin \notin DOMAIN product_metadata
    /\ DOMAIN product_metadata # {}

\* C18: in a forecast step i > 0 whose model prediction was within 0.15 of
\* the previous emitted value, a corrected value that is still within 0.05
\* of the previous emitted value is replaced by prev + 0.15 or prev - 0.15;
\* so, unless the floor at 0.1 binds, the value emitted by such a step is at
\* least 0.05 away from the value emitted before it.
C18_CorrectedStepsDiffer ==
    (/\ req.op = "forecast"
     /\ Len(forecasts) >= 2
     /\ branch \in {"corrected", "forced"}
     /\ historical[Len(historical)] > 100)
        => Abs(forecasts[Len(forecasts)].demand
                   - forecasts[Len(forecasts) - 1].demand) >= 50

\* C19: when exactly one of the two lists get_hybrid_recommendations draws
\* (collaborative for 2n, content for 2n) is empty, the call returns the
\* first n items of the other list, unchanged; when both are empty it
\* returns the empty list.
C19_HybridFallback ==
    Returned("hybrid") =>
        /\ Len(cf_recs) <= 2 * req.n
        /\ Len(cb_recs) <= 2 * req.n
        /\ (cf_recs = <<>> /\ cb_recs # <<>>) => result = Take(cb_recs, req.n)
        /\ (cb_recs = <<>> /\ cf_recs # <<>>) => result = Take(cf_recs, req.n)
        /\ (cf_recs = <<>> /\ cb_recs = <<>>) => result = <<>>

\* a hybrid request for a product outside the collaborative mapping returned
\* the content list cut to n
C19_Witness ==
    /\ Returned("hybrid")
    /\ cf_recs = <<>>
    /\ Len(cb_recs) > req.n
    /\ Len(result) = req.n

\* position of a product in the score map
ScorePos(a) == CHOOSE k \in 1..Len(scores) : scores[k].asin = a

\* C20: the score map of get_hybrid_recommendations holds the collaborative
\* candidates in their list order followed by the content-only candidates in
\* theirs, and two returned products whose combined scores are exactly equal
\* appear in the result in that order of insertion: the descending sort does
\* not reorder ties.
C20_TiesKeepInsertionOrder ==
    (Returned("hybrid") /\ cf_recs # <<>> /\ cb_recs # <<>>) =>
        /\ AsinsOf(scores) =
              AsinsOf(cf_recs)
                  \o SelectSeq(AsinsOf(cb_recs),
                               LAMBDA a : a \notin Range(AsinsOf(cf_recs)))
        /\ \A j, k \in 1..Len(result) :
              (/\ j < k
               /\ scores[ScorePos(result[j].asin)].score
                      = scores[ScorePos(result[k].asin)].score)
                  => ScorePos(result[j].asin) < ScorePos(result[k].asin)

\* a hybrid result in which a collaborative candidate and a content-only
\* candidate of the same combined score both appear
C20_Witness ==
    /\ Returned("hybrid")
    /\ cf_recs # <<>>
    /\ cb_recs # <<>>
    /\ \E j, k \in 1..Len(result) :
          /\ j < k
          /\ scores[ScorePos(result[j].asin)].score
                 = scores[ScorePos(result[k].asin)].score
          /\ result[j].asin \in Range(AsinsOf(cf_recs))
          /\ result[k].asin \notin Range(AsinsOf(cf_recs))

\* the points emitted so far are Forecast-1, Forecast-2, ... in this order,
\* all flagged as forecasts, one per completed step
EmittedInOrder ==
    (req.op = "forecast" /\ outcome \in {"running", "returned"}) =>
        /\ Len(forecasts) = loop_i
        /\ outcome = "returned" => Len(forecasts) = req.n
        /\ \A k \in 1..Len(forecasts) :
              /\ forecasts[k].week = <<"Forecast", k>>
              /\ forecasts[k].is_forecast
        /\ loop_i > 0 =>
              forecasts[loop_i].demand = Round2(historical[Len(historical)])

\* a forecast step emits its prediction rounded to 2 decimals and leaves the
\* prediction itself, unrounded, as the last entry of the history buffer
StepKeepsFullPrecision ==
    (outcome = "running" /\ loop_i' = loop_i + 1) =>
        \E m \in ModelOutcomes(forecasts) :
            LET s == StepPrediction(historical, forecasts, loop_i, historical_std,
                                    trend, m)
            IN  /\ historical'[Len(historical')] = s.pred
                /\ forecasts' = Append(forecasts, [week |-> <<"Forecast", loop_i + 1>>,
                                                   demand |-> Round2(s.pred),
                                                   is_forecast |-> TRUE])

\* C21: generate_forecast(asin, h) emits exactly h points, the i-th (from 0)
\* labelled Forecast-{i+1}, flagged is_forecast, with the step's prediction
\* rounded to 2 decimals as demand, in increasing i; after step i the last
\* entry of the history buffer is the unrounded prediction of step i, from
\* which the next step computes.
C21_EmitsRoundedKeepsUnrounded == []EmittedInOrder /\ [][StepKeepsFullPrecision]_vars

\* a forecast of three points has been returned whose last prediction, as
\* kept in the history buffer, is not the rounded value that was emitted
C21_Witness ==
    /\ req.op = "forecast"
    /\ outcome = "returned"
    /\ req.n = 3
    /\ Len(forecasts) = 3
    /\ historical[Len(historical)] # forecasts[3].demand
    /\ historical[Len(historical) - 1] # forecasts[2].demand

----------------------------------------------------------------------------
(* RecommendationService._load_metadata_index: the catalog scan, with the
   sizes of the code scaled down in proportion *)

\* longest metadata file of the model, in records
MaxStream == 5

\* batch_size (50000 in the code)
batch_size == 2

\* the scan cap of the while loop (500000 in the code)
ScanCap == 4

\* the catalog size under which the first rows are loaded too (100)
MinResolved == 2

\* the number of first rows loaded for browsing (10000)
FirstRows == 1

\* product IDs a record of the file may carry; "" is a record without one
StreamIds == {"A", "B", "X", ""}

Streams == UNION {[1..len -> StreamIds] : len \in 0..MaxStream}

\* a mapping file that knows product A only
SmallMappings ==
    [LoadedMappings EXCEPT !.product_to_idx = ("A" :> 0),
                           !.idx_to_product = (0 :> "A")]

\* pl.read_ndjson(meta_path, n_rows = n): the first n records, each with the
\* position it has in the file
read_ndjson(n) == [k \in 1..Min(n, Len(meta_stream)) |-> [asin |-> meta_stream[k], pos |-> k]]

\* DataFrame.slice(start, length)
Slice(frame, start, length) == SubSeq(frame, start + 1, Min(start + length, Len(frame)))

\* model_products of _load_metadata_index
model_products ==
    IF "mappings" \in artifacts THEN DOMAIN mappings.product_to_idx ELSE {}

RECURSIVE IndexRows(_, _, _)
\* the loop over the rows of a frame: a row is entered under its product ID
\* when it has one, the ID is among wanted and the catalog has no entry for it
IndexRows(catalog, rows, wanted) ==
    IF rows = <<>> THEN catalog
    ELSE LET row == Head(rows)
             asin == row.asin
         IN  IF Truthy(asin) /\ asin \in wanted /\ asin \notin DOMAIN catalog
             THEN IndexRows([a \in DOMAIN catalog \cup {asin} |->
                                IF a = asin THEN row ELSE catalog[a]],
                            Tail(rows), wanted)
             ELSE IndexRows(catalog, Tail(rows), wanted)

scanLocals == <<scan_offset, found>>

\* what no step of the scan touches
scanFrame ==
    <<artifacts, item_user_matrix, tfidf_matrix, mappings, weekly_demand, files,
      ctor, meta_stream, reviews, requestVars>>

\* entry of _load_metadata_index: without a metadata file it returns at once
ScanStart ==
    /\ scan_pc = "start"
    /\ scan_pc' = IF files["metadata"] = "missing" THEN "done" ELSE "loop"
    /\ scan_offset' = 0
    /\ found' = 0
    /\ UNCHANGED <<product_metadata, scanFrame>>

\* the while condition of the scan
ScanGoesOn == found < Cardinality(model_products) /\ scan_offset < ScanCap

\* one pass of the while loop: the frame read is the first batch_size records
\* of the file, of which the rows from offset on are taken; an empty frame
\* or a failing read leaves the loop
ScanBatch ==
    /\ scan_pc = "loop"
    /\ ScanGoesOn
    /\ LET meta == Slice(read_ndjson(batch_size), scan_offset, batch_size)
           indexed == IndexRows(product_metadata, meta, model_products)
       IN  IF files["metadata"] = "corrupt" \/ Len(meta) = 0
           THEN /\ scan_pc' = "after"
                /\ UNCHANGED <<product_metadata, scanLocals>>
           ELSE /\ product_metadata' = indexed
                /\ found' = found + Cardinality(DOMAIN indexed)
                                - Cardinality(DOMAIN product_metadata)
                /\ scan_offset' = scan_offset + batch_size
                /\ scan_pc' = "loop"
    /\ UNCHANGED scanFrame

\* the while condition is false: every target is found or the cap is reached
ScanLoopExit ==
    /\ scan_pc = "loop"
    /\ ~ScanGoesOn
    /\ scan_pc' = "after"
    /\ UNCHANGED <<product_metadata, scanLocals, scanFrame>>

\* after the loop: a small catalog is filled up from the first rows of the
\* file, entries already there being kept; a failing read ends the load
ScanFallback ==
    /\ scan_pc = "after"
    /\ scan_pc' = "done"
    /\ product_metadata' =
          IF files["metadata"] # "corrupt"
                /\ Cardinality(DOMAIN product_metadata) < MinResolved
          THEN IndexRows(product_metadata, read_ndjson(FirstRows), StreamIds)
          ELSE product_metadata
    /\ UNCHANGED <<scanLocals, scanFrame>>

\* the recommendation service inside _load_models, its artifacts read with
\* or without the mappings, about to index a metadata file
InitScan ==
    /\ \E how \in {"ok", "missing", "corrupt"} :
          files = [f \in Files |-> IF f = "metadata" THEN how ELSE "ok"]
    /\ \E m \in {LoadedMappings, SmallMappings} , a \in {RecArtifacts, RecArtifacts \ {"mappings"}} :
          /\ mappings = m
          /\ artifacts = a
    /\ item_user_matrix = [r \in 0..4 |-> IF r < 2 THEN <<1, 0>> ELSE <<1, 1>>]
    /\ tfidf_matrix = [r \in 0..3 |-> IF r < 2 THEN <<1, 0>> ELSE <<1, 1>>]
    /\ product_metadata = <<>>
    /\ weekly_demand = <<>>
    /\ cls_instance = [c \in Classes |-> IF c = "RecommendationService" THEN 1 ELSE 0]
    /\ obj_initialized = [o \in ObjIds |-> IF o = 1 THEN "true" ELSE "free"]
    /\ obj_load = [o \in ObjIds |-> IF o = 1 THEN "loading" ELSE "none"]
    /\ load_runs = [c \in Classes |-> IF c = "RecommendationService" THEN 1 ELSE 0]
    /\ pc = [t \in Threads |-> IF t = "t1" THEN "loading" ELSE "idle"]
    /\ constructing = [t \in Threads |-> "RecommendationService"]
    /\ self = [t \in Threads |-> IF t = "t1" THEN 1 ELSE 0]
    /\ calls = [t \in Threads |-> IF t = "t1" THEN 1 ELSE 0]
    /\ obtained = [t \in Threads |-> <<>>]
    /\ meta_stream \in Streams
    /\ scan_offset = 0
    /\ found = 0
    /\ scan_pc = "start"
    /\ reviews = <<>>
    /\ Idle

NextScan == ScanStart \/ ScanBatch \/ ScanLoopExit \/ ScanFallback

SpecScan == InitScan /\ [][NextScan]_vars

\* the positions of the file at which a record of product a lies within the
\* scan cap
WithinCap(a) == {p \in 1..Min(Len(meta_stream), ScanCap) : meta_stream[p] = a}

\* C22: when the scan is over and the file was readable, every target ID
\* (key of the collaborative mapping) that has a record among the first
\* ScanCap records of the file is in the catalog: the batches examined are
\* successive and the loop stops only on all targets found, end of file or
\* the cap.
C22_TargetsWithinCapIndexed ==
    (scan_pc = "done" /\ files["metadata"] = "ok") =>
        \A a \in model_products : WithinCap(a) # {} => a \in DOMAIN product_metadata


----------------------------------------------------------------------------
(* The demand aggregation of DemandService._load_data *)

\* most events in the reviews file
MaxReviews == 3
\* the rows read from the reviews file (n_rows=100000, scaled down)
ReviewRows == 2

\* the days on which events fall, as days since 1970-01-01 (the date of the
\* epoch timestamp): 2018-01-01, 2018-01-08, 2018-12-31, 2019-01-01
EventDays == {17532, 17539, 17896, 17897}

\* the contents of Home_and_Kitchen.jsonl: product ID and day of each event
ReviewFiles ==
    UNION {[1..n -> [parent_asin : {"A", "B"}, day : EventDays]] : n \in 0..MaxReviews}

IsLeap(y) == (y % 4 = 0 /\ y % 100 # 0) \/ y % 400 = 0
DaysIn(y) == IF IsLeap(y) THEN 366 ELSE 365

\* the day number of 1 January of year y
RECURSIVE DaysBefore(_)
DaysBefore(y) == IF y <= 1970 THEN 0 ELSE DaysBefore(y - 1) + DaysIn(y - 1)

\* the calendar year and the day of the year of day d, counted on from year y
RECURSIVE CivilFrom(_, _)
CivilFrom(y, d) ==
    IF d < DaysIn(y) THEN [year |-> y, ordinal |-> d + 1]
    ELSE CivilFrom(y + 1, d - DaysIn(y))

\* ISO weekday, Monday 1 to Sunday 7; 1970-01-01 was a Thursday
Weekday(d) == ((d + 3) % 7) + 1

\* the ISO weeks of year y: 53 when it starts on a Thursday, or on a
\* Wednesday in a leap year
WeeksIn(y) ==
    LET first == Weekday(DaysBefore(y))
    IN  IF first = 4 \/ (IsLeap(y) /\ first = 3) THEN 53 ELSE 52

\* the ISO year and ISO week of day d
IsoYearWeek(d) ==
    LET c == CivilFrom(1970, d)
        w == (c.ordinal - Weekday(d) + 10) \div 7
    IN  IF w < 1 THEN <<c.year - 1, WeeksIn(c.year - 1)>>
        ELSE IF w > WeeksIn(c.year) THEN <<c.year + 1, 1>>
        ELSE <<c.year, w>>

\* pl.col('date').dt.year(): the calendar year
year(d) == CivilFrom(1970, d).year
\* pl.col('date').dt.week(): the ISO week number
week(d) == IsoYearWeek(d)[2]

\* the key year + "-W" + week padded to two digits, kept as the pair of its
\* numbers: with four-digit years and two-digit weeks the order of the
\* strings is the order of the pairs
year_week(d) == <<year(d), week(d)>>
KeyLess(k, l) == k[1] < l[1] \/ (k[1] = l[1] /\ k[2] < l[2])

\* pl.read_ndjson(reviews_path, n_rows=100000)
read_reviews == SubSeq(reviews, 1, Min(Len(reviews), ReviewRows))

\* the events of a group of group_by(['parent_asin', 'year_week', 'year', 'week'])
GroupOf(rows, a, k) ==
    {i \in DOMAIN rows : rows[i].parent_asin = a /\ year_week(rows[i].day) = k}

\* the week keys of product a, in the order of sort(['parent_asin', 'year_week'])
WeekKeys(rows, a) ==
    LET S == {year_week(rows[i].day) : i \in {j \in DOMAIN rows : rows[j].parent_asin = a}}
    IN  CHOOSE s \in [1..Cardinality(S) -> S] :
            \A i, j \in 1..Cardinality(S) : i < j => KeyLess(s[i], s[j])

\* the aggregated table: for each product its demands (pl.len() of each
\* group) in the order of its week keys
Aggregate(rows) ==
    [a \in {rows[i].parent_asin : i \in DOMAIN rows} |->
        [n \in DOMAIN WeekKeys(rows, a) |->
            Cardinality(GroupOf(rows, a, WeekKeys(rows, a)[n]))]]

\* DemandService._load_data: without the file it returns, a failing read
\* leaves the attributes unset
LoadData ==
    /\ scan_pc = "start"
    /\ scan_pc' = "done"
    /\ artifacts' = artifacts \cup _load_data(files)
    /\ weekly_demand' = IF files["weekly_demand"] = "ok"
                        THEN Aggregate(read_reviews) ELSE weekly_demand
    /\ UNCHANGED <<item_user_matrix, tfidf_matrix, mappings, product_metadata, files,
                   ctor, meta_stream, scan_offset, found, reviews, requestVars>>

\* the demand service inside __init__, about to read a reviews file
InitAggregation ==
    /\ \E how \in {"ok", "missing", "corrupt"} :
          files = [f \in Files |-> IF f = "weekly_demand" THEN how ELSE "ok"]
    /\ artifacts = RecArtifacts
    /\ mappings = LoadedMappings
    /\ item_user_matrix = [r \in 0..4 |-> IF r < 2 THEN <<1, 0>> ELSE <<1, 1>>]
    /\ tfidf_matrix = [r \in 0..3 |-> IF r < 2 THEN <<1, 0>> ELSE <<1, 1>>]
    /\ product_metadata = CatalogOf([p \in Products |-> "img"])
    /\ weekly_demand = <<>>
    /\ cls_instance = [c \in Classes |-> IF c = "RecommendationService" THEN 1 ELSE 2]
    /\ obj_initialized = [o \in ObjIds |-> IF o <= 2 THEN "true" ELSE "free"]
    /\ obj_load = [o \in ObjIds |-> IF o = 1 THEN "done"
                                    ELSE IF o = 2 THEN "loading" ELSE "none"]
    /\ load_runs = [c \in Classes |-> 1]
    /\ pc = [t \in Threads |-> IF t = "t1" THEN "loading" ELSE "idle"]
    /\ constructing = [t \in Threads |-> "DemandService"]
    /\ self = [t \in Threads |-> IF t = "t1" THEN 2 ELSE 0]
    /\ calls = [t \in Threads |-> IF t = "t1" THEN 2 ELSE 0]
    /\ obtained = [t \in Threads |-> IF t = "t1" THEN <<1>> ELSE <<>>]
    /\ meta_stream = <<>>
    /\ scan_offset = 0
    /\ found = 0
    /\ scan_pc = "start"
    /\ reviews \in ReviewFiles
    /\ Idle

NextAggregation == LoadData

SpecAggregation == InitAggregation /\ [][NextAggregation]_vars

\* the table has been built from a readable file
Aggregated == scan_pc = "done" /\ "weekly_demand" \in artifacts

\* two events of one product are counted in the same record exactly when
\* they fall in the same ISO year-week
SameRecordIffSameIsoWeek ==
    LET rows == read_reviews
    IN  \A i, j \in DOMAIN rows :
            rows[i].parent_asin = rows[j].parent_asin =>
                (year_week(rows[i].day) = year_week(rows[j].day)
                    <=> IsoYearWeek(rows[i].day) = IsoYearWeek(rows[j].day))

\* one record per (product, week) pair, its demand the number of the
\* events of the pair
OneRecordPerWeek ==
    LET rows == read_reviews
    IN  /\ DOMAIN weekly_demand = {rows[i].parent_asin : i \in DOMAIN rows}
        /\ \A a \in DOMAIN weekly_demand :
              /\ Len(weekly_demand[a]) =
                    Cardinality({IsoYearWeek(rows[i].day) :
                                    i \in {j \in DOMAIN rows : rows[j].parent_asin = a}})
              /\ \A n \in DOMAIN weekly_demand[a] :
                    weekly_demand[a][n] =
                        Cardinality(GroupOf(rows, a, WeekKeys(rows, a)[n]))
              /\ SumSeq(weekly_demand[a]) =
                    Cardinality({i \in DOMAIN rows : rows[i].parent_asin = a})

\* a product's records in the order of their keys are in the order of time:
\* the events of an earlier record are on earlier days
Chronological ==
    LET rows == read_reviews
    IN  \A a \in DOMAIN weekly_demand :
            \A m, n \in DOMAIN WeekKeys(rows, a) :
                m < n =>
                    \A i \in GroupOf(rows, a, WeekKeys(rows, a)[m]),
                       j \in GroupOf(rows, a, WeekKeys(rows, a)[n]) :
                        rows[i].day < rows[j].day

\* C23: after the aggregation two events of the same product are counted
\* in the same record if and only if they fall in the same ISO year-week,
\* there is one record per (product, week) pair whose demand is the number
\* of its events, and a product's records sorted by week key are in
\* chronological order, also across a year boundary.
C23_GroupedByIsoWeek ==
    Aggregated => SameRecordIffSameIsoWeek /\ OneRecordPerWeek /\ Chronological


\* C24: at the start of every step of the forecast loop the history buffer
\* holds at least 10 entries (so at least 4), whatever the horizon, and the
\* mean-based branch for fewer than 4 history points is never the branch a
\* step took.
C24_HistoryNeverShort ==
    /\ outcome = "running" => Len(historical) >= 10
    /\ branch # "short_history"

\* a step other than the first is about to run, the earlier ones having
\* gone through the model or its exception fallback
C24_Witness ==
    /\ outcome = "running"
    /\ loop_i >= 1
    /\ loop_i < req.n
    /\ branch \in {"plain", "corrected", "exception"}
    /\ Len(historical) = Len(weekly_demand[req.asin]) + loop_i


\* the distinct product IDs of the two underlying lists
DistinctIds ==
    {cf_recs[i].asin : i \in DOMAIN cf_recs} \cup {cb_recs[j].asin : j \in DOMAIN cb_recs}

\* C25: when a hybrid request returned and both underlying lists were
\* non-empty, the image filter behind the cut to the top n removed nothing:
\* the result has exactly min(n, distinct product IDs of the two lists)
\* items, each with method 'hybrid' and a 'score' field and without a
\* 'similarity' field.
C25_HybridFilterRemovesNothing ==
    (req.op = "hybrid" /\ outcome = "returned" /\ cf_recs # <<>> /\ cb_recs # <<>>) =>
        /\ Len(result) = Min(req.n, Cardinality(DistinctIds))
        /\ \A k \in DOMAIN result :
              /\ result[k].method = "hybrid"
              /\ "score" \in DOMAIN result[k]
              /\ "similarity" \notin DOMAIN result[k]

\* a merge of two lists that share a product, cut to fewer items than
\* there are distinct IDs
C25_Witness ==
    /\ req.op = "hybrid"
    /\ outcome = "returned"
    /\ \E i \in DOMAIN cf_recs, j \in DOMAIN cb_recs : cf_recs[i].asin = cb_recs[j].asin
    /\ Cardinality(DistinctIds) < Len(cf_recs) + Len(cb_recs)
    /\ Len(result) = req.n
    /\ req.n < Cardinality(DistinctIds)

====
